---- MODULE Spec2Model ----
(***************************************************************************)
(* A model of the statistical-coding stack of the compression suite:      *)
(* the logistic tables (ari/log.rs), the FPAQ and LPAQ1 range coders with  *)
(* their stream framing (ari/fpaq.rs, ari/lpaq1.rs), the buffered reader   *)
(* they read through (bufio.rs) and the command-line driver (main.rs).     *)
(*                                                                         *)
(* Each subsystem has its own specification (SpecLog, SpecFpaq, SpecLpaq,  *)
(* SpecDriver); the variables of the other subsystems stay at their idle   *)
(* values under it.                                                        *)
(***************************************************************************)
EXTENDS Integers, Sequences, FiniteSets, TLC

VARIABLES
    \* ---- ari/log.rs: one application of the logistic maps ----
    lpc,        \* "idle", "squash_stretch" (squash(stretch(p)) was computed)
                \* or "stretch_squash" (stretch(squash(d)) was, for d and d + 1)
    larg,       \* the argument: p, or d
    lmid,       \* the inner result: stretch(p), or squash(d)
    lres,       \* the outer result: squash(stretch(p)), or stretch(squash(d))
    lnext,      \* stretch(squash(d + 1)), with lpc = "stretch_squash"
    \* ---- ari/fpaq.rs, ari/lpaq1.rs: one compression and decompression ----
    run,        \* the run's inputs: [algo, file, cap, prf]
    pc,         \* where the run is (see CoderInit)
    rd,         \* the compressor's file_in
    wr,         \* the compressor's file_out / archive: [buf, pos]
    archive,    \* the compressed file on disk
    enc,        \* Encoder: [low, high, pred]
    cur,        \* the bytes being encoded: [block, i, left]
    data,       \* lpaq1_compress's BlockData
    call,       \* the latest encode call: values at entry, mid, rounds
    trail,      \* history: the encoder's (low, high) after each encoded bit
    flushed,    \* the bytes Encoder::flush wrote
    intact,     \* the decompressor reads the archive as the compressor left it
    drd,        \* the decompressor's file_in
    dec,        \* Decoder: [low, high, x, pred]
    dst,        \* the decompressor's loops: header, blocks and bits left
    out,        \* the decompressor's output file
    fed,        \* history: every byte read_u8 returned to the decoder
    short,      \* history: how many of them were read from an exhausted stream
    why,        \* the reason of a panic
    \* ---- main.rs: one invocation of the driver ----
    dpc,        \* where main is (see DriverInit)
    args,       \* the arguments after the program name
    inputOpens, \* File::open(INPUT) succeeds
    outputCreates, \* File::create(OUTPUT) succeeds
    outputCreated, \* OUTPUT has been created or truncated
    usagePrinted,  \* print_usage has printed
    status,     \* the exit status, -1 while main runs
    \* ---- bwt/bwt.rs, lz/lzw.rs: one file through a codec and back ----
    codec,      \* "bwt" or "lzw"
    cpc,        \* where the run is (see CodecInit)
    cfile,      \* the input file of the compressing function
    ccap,       \* the scale of the readers' capacity
    crd,        \* file_in of the function that runs
    cst,        \* the locals of the function that runs
    carch,      \* the bytes the compressing function has written
    cout,       \* the bytes the decompressing function has written
    \* ---- ari/lpaq1.rs: the parts of the Predictor ----
    part,       \* the part that runs: "hash", "match" or "models" (see PartsInit)
    ppc,        \* "run", or "panic" after a panic
    pin,        \* the bits still to be coded
    ht,         \* HashTable.t: the bytes that are not 0, by index
    hcall,      \* the latest call of HashTable::hash (see HashCall)
    mm,         \* MatchModel; buf and ht by their entries that are not 0
    mcall,      \* the latest call of MatchModel::p (see MatchP)
    cm,         \* the context models of the Predictor, by name (see PartsInit)
    t0,         \* ContextModelO1.t0: the bytes that are not 0, by index
    cmcall,     \* the latest call of Predictor::update (see ModelsP)
    \* ---- ari/fpaq.rs, ari/lpaq1.rs: the maps and the mixer on their own ----
    unit,       \* the unit that runs: "statemap", "fpaq", "lpaq1" (see PredInit)
    sm,         \* StateMap: [v, cxt, cxt_map] and the calls still allowed
    smcall,     \* the latest call of StateMap::p (see SmP)
    fpaq,       \* the Predictor of fpaq.rs and the calls still allowed
    fpcall,     \* the latest call of its update (see FpUpdate)
    lpaq,       \* the Predictor of lpaq1.rs and the calls still allowed
    lpcall,     \* the latest call of its update (see LpUpdate)
    \* ---- bufio.rs: reads of a BufReader on their own ----
    stream,     \* the bytes of the file under the reader
    reader,     \* the BufReader: [buf, rest, cap]
    rcall       \* the latest call of read_ or read_checked (see ReadCall)

logVars == <<lpc, larg, lmid, lres, lnext>>

coderVars == <<run, pc, rd, wr, archive, enc, cur, data, call, trail, flushed,
               intact, drd, dec, dst, out, fed, short, why>>

driverVars == <<dpc, args, inputOpens, outputCreates, outputCreated,
                usagePrinted, status>>

codecVars == <<codec, cpc, cfile, ccap, crd, cst, carch, cout>>
\* The inputs of a codec run.
codecRun == <<codec, cfile, ccap>>

partsVars == <<part, ppc, pin, ht, hcall, mm, mcall, cm, t0, cmcall>>

predVars == <<unit, sm, smcall, fpaq, fpcall, lpaq, lpcall>>

bufioVars == <<stream, reader, rcall>>

vars == <<logVars, coderVars, driverVars, codecVars, partsVars, predVars,
          bufioVars>>

\* The variables each part of the model leaves alone.
outsideLog == <<coderVars, driverVars, codecVars, partsVars, predVars,
    bufioVars>>
outsideCoder == <<logVars, driverVars, codecVars, partsVars, predVars,
    bufioVars>>
outsideDriver == <<logVars, coderVars, codecVars, partsVars, predVars,
    bufioVars>>
outsideCodec == <<logVars, coderVars, driverVars, partsVars, predVars,
    bufioVars>>
outsideParts == <<logVars, coderVars, driverVars, codecVars, predVars,
    bufioVars>>
outsidePred == <<logVars, coderVars, driverVars, codecVars, partsVars,
    bufioVars>>
outsideBufio == <<logVars, coderVars, driverVars, codecVars, partsVars,
    predVars>>

(***************************************************************************)
(* ari/log.rs                                                              *)
(***************************************************************************)

\* The 33 anchors of the logistic function (log.rs:2-5), 1-indexed here.
SQ_T ==
    <<1,2,3,6,10,16,27,45,73,120,194,310,488,747,1101,
      1546,2047,2549,2994,3348,3607,3785,3901,3975,4022,
      4050,4068,4079,4085,4089,4092,4093,4094>>

\* d & 127 and d >> 7 on a two's-complement i32: the mathematical mod and
\* the floor division by 128.
LowBits7(d) == ((d % 128) + 128) % 128
Sar7(d) == (d - LowBits7(d)) \div 128

\* A squash that interpolates with the two weights exchanged.
squashSwappedWeights(d) ==
    IF d > 2047 THEN 4095
    ELSE IF d < -2047 THEN 0
    ELSE LET i_w == LowBits7(d)
             i   == Sar7(d) + 16
         IN  (SQ_T[i + 1] * i_w + SQ_T[i + 2] * (128 - i_w) + 64) \div 128

\* squash(d), log.rs:1-11.
squash(d) ==
    IF d > 2047 THEN 4095
    ELSE IF d < -2047 THEN 0
    ELSE LET i_w == LowBits7(d)
             i   == Sar7(d) + 16
         IN  (SQ_T[i + 1] * (128 - i_w) + SQ_T[i + 2] * i_w + 64) \div 128

\* A fill whose loop condition is j < i: it leaves table[i] unwritten.
StretchFillFrom(t, pi, i, v) ==
    [j \in pi..(i - 1) |-> v] @@ t

\* The inner while of build_stretch_table (log.rs:21-25): starting at j = pi,
\* while j <= i { table[j] = x; j += 1 }. The entries pi..i become x, the
\* others stay.
StretchFill(t, pi, i, v) ==
    [j \in pi..i |-> v] @@ t

RECURSIVE BuildRows(_, _)
\* build_stretch_table's outer while (log.rs:19-28) from the loop state st
\* (table t, pi, x) up to x = last: i = squash(x), the inner fill,
\* pi = i + 1, x += 1.
BuildRows(st, last) ==
    IF st.x <= last
    THEN LET i == squash(st.x)
         IN  BuildRows([t  |-> StretchFill(st.t, st.pi, i, st.x),
                        pi |-> i + 1,
                        x  |-> st.x + 1], last)
    ELSE st

RECURSIVE BuildLoop(_)
\* The whole outer while, `while x <= 2047`, evaluated 256 iterations at a
\* time, and these 16 at a time, to keep the evaluation's nesting shallow.
BuildLoop(st) ==
    LET upTo(x) == IF x < 2047 THEN x ELSE 2047
        RECURSIVE blocks(_, _)
        blocks(s, last) ==
            IF s.x <= last
            THEN blocks(BuildRows(s, IF s.x + 15 < last THEN s.x + 15 ELSE last), last)
            ELSE s
    IN  IF st.x <= 2047 THEN BuildLoop(blocks(st, upTo(st.x + 255))) ELSE st

\* build_stretch_table (log.rs:15-31): the loop from table = [0; 4096],
\* pi = 0, x = -2047, then table[4095] = 2047.
build_stretch_table ==
    [BuildLoop([t |-> [j \in 0..4095 |-> 0], pi |-> 0, x |-> -2047]).t
        EXCEPT ![4095] = 2047]

\* const STRETCH (log.rs:13).
STRETCH == build_stretch_table

\* stretch(p), log.rs:33-35.
stretch(p) == STRETCH[p]

\* The coder's variables while another subsystem runs.
CoderIdle ==
    /\ run = [algo |-> "none"]
    /\ pc = "idle"
    /\ rd = <<>> /\ wr = <<>> /\ archive = <<>> /\ enc = <<>> /\ cur = <<>>
    /\ data = <<>> /\ call = <<>> /\ trail = <<>> /\ flushed = <<>>
    /\ intact = TRUE /\ drd = <<>> /\ dec = <<>> /\ dst = <<>> /\ out = <<>>
    /\ fed = <<>> /\ short = 0 /\ why = ""

\* No invocation of the driver is modelled.
DriverIdle ==
    /\ dpc = "idle" /\ args = <<>>
    /\ inputOpens = TRUE /\ outputCreates = TRUE /\ outputCreated = FALSE
    /\ usagePrinted = FALSE /\ status = -1

\* No application of the logistic maps is modelled.
LogIdle == lpc = "idle" /\ larg = 0 /\ lmid = 0 /\ lres = 0 /\ lnext = 0

\* No run of bwt or lzw is modelled.
CodecIdle ==
    /\ codec = "none" /\ cpc = "idle" /\ cfile = <<>> /\ ccap = 0
    /\ crd = <<>> /\ cst = <<>> /\ carch = <<>> /\ cout = <<>>

\* No part of the lpaq1 Predictor is modelled on its own.
PartsIdle ==
    /\ part = "none" /\ ppc = "idle" /\ pin = <<>> /\ ht = <<>> /\ hcall = <<>>
    /\ mm = <<>> /\ mcall = <<>> /\ cm = <<>> /\ t0 = <<>> /\ cmcall = <<>>

\* No map and no mixer is modelled on its own.
PredIdle ==
    /\ unit = "none" /\ sm = <<>> /\ smcall = <<>> /\ fpaq = <<>> /\ fpcall = <<>>
    /\ lpaq = <<>> /\ lpcall = <<>>

\* No reader is modelled on its own.
BufioIdle == stream = <<>> /\ reader = <<>> /\ rcall = [op |-> "idle"]

\* Every part of the model but one is idle.
IdleOutsideLog ==
    CoderIdle /\ DriverIdle /\ CodecIdle /\ PartsIdle /\ PredIdle /\ BufioIdle
IdleOutsideCoder ==
    LogIdle /\ DriverIdle /\ CodecIdle /\ PartsIdle /\ PredIdle /\ BufioIdle
IdleOutsideDriver ==
    LogIdle /\ CoderIdle /\ CodecIdle /\ PartsIdle /\ PredIdle /\ BufioIdle
IdleOutsideCodec ==
    LogIdle /\ CoderIdle /\ DriverIdle /\ PartsIdle /\ PredIdle /\ BufioIdle
IdleOutsideParts ==
    LogIdle /\ CoderIdle /\ DriverIdle /\ CodecIdle /\ PredIdle /\ BufioIdle
IdleOutsidePred ==
    LogIdle /\ CoderIdle /\ DriverIdle /\ CodecIdle /\ PartsIdle /\ BufioIdle
IdleOutsideBufio ==
    LogIdle /\ CoderIdle /\ DriverIdle /\ CodecIdle /\ PartsIdle /\ PredIdle

LogInit == LogIdle /\ IdleOutsideLog

\* squash(stretch(p)) for a probability p.
SquashOfStretch ==
    /\ lpc = "idle"
    /\ \E p \in 0..4095 :
        /\ larg' = p
        /\ lmid' = stretch(p)
        /\ lres' = squash(stretch(p))
    /\ lpc' = "squash_stretch"
    /\ UNCHANGED <<lnext, outsideLog>>

\* stretch(squash(d)) for a stretched probability d and for its successor.
StretchOfSquash ==
    /\ lpc = "idle"
    /\ \E d \in -2047..2046 :
        /\ larg' = d
        /\ lmid' = squash(d)
        /\ lres' = stretch(squash(d))
        /\ lnext' = stretch(squash(d + 1))
    /\ lpc' = "stretch_squash"
    /\ UNCHANGED outsideLog

LogNext == SquashOfStretch \/ StretchOfSquash

SpecLog == LogInit /\ [][LogNext]_vars

\* C5 (as claimed): |squash(stretch(p)) - p| <= 1 for every p in 0..4095.
C5_Original ==
    lpc = "squash_stretch" => (lres - larg <= 1 /\ larg - lres <= 1)

\* C5 (amended): |squash(stretch(p)) - p| <= 3 for every p in 0..4095; the
\* result is below p only for p = 4095, where it is 4094.
C5_SquashStretchWithin3 ==
    lpc = "squash_stretch" =>
        /\ lres - larg <= 3
        /\ larg - lres <= 1
        /\ (larg < 4095 => lres >= larg)

\* squash(stretch(p)) was computed for a p where it is off by the full 3.
C5_Witness ==
    /\ lpc = "squash_stretch"
    /\ lres - larg = 3

\* C6: stretch(squash(d)) is non-decreasing in d over -2047..2047, squash(d)
\* stays in 0..4095 and stretch(p) in -2047..2047.
C6_StretchSquashMonotone ==
    lpc = "stretch_squash" =>
        /\ lres <= lnext
        /\ lmid \in 0..4095
        /\ lres \in -2047..2047
        /\ lnext \in -2047..2047

\* stretch(squash(d)) was computed at a d where it strictly increases.
C6_Witness ==
    /\ lpc = "stretch_squash"
    /\ lres < lnext

(***************************************************************************)
(* 32-bit unsigned registers.  TLC's integers are 32-bit signed, so a u32  *)
(* is held as two 16-bit halves [h, l] of value h * 65536 + l; the         *)
(* arithmetic below is the wrapping arithmetic of u32, with the carry out  *)
(* reported where the code's `+` could overflow.                           *)
(***************************************************************************)

U32(hh, ll) == [h |-> hh, l |-> ll]

\* 0 and 0xFFFFFFFF, the coder's initial low and high (fpaq.rs:182-183,
\* lpaq1.rs:942-943).
Zero32 == U32(0, 0)
Max32  == U32(65535, 65535)

Lt32(a, b) == a.h < b.h \/ (a.h = b.h /\ a.l < b.l)
Le32(a, b) == ~Lt32(b, a)

\* a - b on u32, wrapping.
Sub32(a, b) ==
    LET borrow == IF a.l < b.l THEN 1 ELSE 0
    IN  U32((a.h - b.h - borrow + 65536) % 65536, (a.l - b.l + 65536) % 65536)

\* a + n on u32 for a small natural n (n < 2^30): the wrapped sum v and the
\* carry out c.
AddSmall32(a, n) ==
    LET ll == a.l + n
        hh == a.h + (ll \div 65536)
    IN  [v |-> U32(hh % 65536, ll % 65536), c |-> hh >= 65536]

\* a + b on u32: the wrapped sum and the carry out.
Add32(a, b) ==
    LET ll == a.l + b.l
        hh == a.h + b.h + (ll \div 65536)
    IN  [v |-> U32(hh % 65536, ll % 65536), c |-> hh >= 65536]

\* a << 8 on u32: the bits shifted out are dropped.
Shl8(a) == U32((a.h % 256) * 256 + (a.l \div 256), (a.l % 256) * 256)

\* a >> 24: the top byte.
TopByte(a) == a.h \div 256

\* (high ^ low) & 0xFF000000 == 0: the top bytes agree.
SameTopByte(a, b) == TopByte(a) = TopByte(b)

(***************************************************************************)
(* The arithmetic coder's shared arithmetic (fpaq.rs:188-206, 242-263;     *)
(* lpaq1.rs:953-974, 1023-1046).                                           *)
(***************************************************************************)

\* range = high - low; mid = low + (range >> 12) * p + ((range & 0x0FFF) * p >> 12).
\* (range >> 12) * p is held in halves: with A = range.h * p it is
\* A * 16 + (range.l >> 12) * p.  c reports a carry out of either addition.
MidOf(low, high, p) ==
    LET range == Sub32(high, low)
        A     == range.h * p
        t1    == AddSmall32(U32(A \div 4096, (A % 4096) * 16),
                            (range.l \div 4096) * p)
        t2    == ((range.l % 4096) * p) \div 4096
        off   == AddSmall32(t1.v, t2)
        sum   == Add32(low, off.v)
    IN  [v |-> sum.v, c |-> t1.c \/ off.c \/ sum.c]

\* The narrowing step of encode: bit 1 keeps [low, mid], bit 0 keeps
\* [mid + 1, high] (fpaq.rs:193-198, lpaq1.rs:961-966).  c: mid + 1 overflowed.
Narrow(low, high, mid, bit) ==
    IF bit = 1
    THEN [low |-> low, high |-> mid, c |-> FALSE]
    ELSE LET m1 == AddSmall32(mid, 1)
         IN  [low |-> m1.v, high |-> high, c |-> m1.c]

\* One round of renormalisation: high = (high << 8) + 255; low <<= 8.
ShiftHigh(high) == AddSmall32(Shl8(high), 255).v
ShiftLow(low) == Shl8(low)

\* A renormalisation that runs one round at most (if instead of while).
EncRenormOnce(low, high, emitted, n) ==
    IF SameTopByte(high, low)
    THEN [low |-> ShiftLow(low), high |-> ShiftHigh(high),
          bytes |-> Append(emitted, TopByte(high)), rounds |-> n + 1]
    ELSE [low |-> low, high |-> high, bytes |-> emitted, rounds |-> n]

RECURSIVE EncRenorm(_, _, _, _)
\* The encoder's while loop (fpaq.rs:201-205, lpaq1.rs:969-973): while the
\* top bytes agree, write high >> 24 and shift.  emitted: the bytes written so
\* far, n: the rounds run.
EncRenorm(low, high, emitted, n) ==
    IF SameTopByte(high, low)
    THEN EncRenorm(ShiftLow(low), ShiftHigh(high),
                   Append(emitted, TopByte(high)), n + 1)
    ELSE [low |-> low, high |-> high, bytes |-> emitted, rounds |-> n]

(***************************************************************************)
(* bufio.rs: BufferedRead for BufReader<File>.  A reader is                *)
(* [buf, rest, cap]: buffer() (the buffered bytes not yet consumed), the   *)
(* bytes of the file not yet read into the buffer, and capacity().         *)
(***************************************************************************)

Min(a, b) == IF a < b THEN a ELSE b

Take(sq, n) == SubSeq(sq, 1, Min(n, Len(sq)))
Drop(sq, n) == SubSeq(sq, Min(n, Len(sq)) + 1, Len(sq))

\* n zero bytes: `[0u8; N]` (bufio.rs:39, 65).
Zeros(n) == [i \in 1..n |-> 0]

\* bytes over an array of n zeros: the first Len(bytes) entries are written.
PadZero(bytes, n) == bytes \o Zeros(n - Len(bytes))

\* BufReader::with_capacity(cap, file) over a file holding `bytes`.
NewReader(bytes, cap) == [buf |-> <<>>, rest |-> bytes, cap |-> cap]

\* BufRead::fill_buf: an empty buffer is refilled with up to cap bytes.
FillBuf(r) ==
    IF r.buf = <<>>
    THEN [r EXCEPT !.buf = Take(r.rest, r.cap), !.rest = Drop(r.rest, r.cap)]
    ELSE r

\* BufRead::consume(capacity()): the buffer holds at most cap bytes, so all
\* of it is consumed.
ConsumeCap(r) == [r EXCEPT !.buf = Drop(r.buf, r.cap)]

\* Read::read(&mut bytes) for an n-byte array: with an empty buffer and
\* n >= cap the file is read directly, else the buffer is filled if empty
\* and up to n bytes are copied out of it.  got: the bytes read.
BufRead(r, n) ==
    IF r.buf = <<>> /\ n >= r.cap
    THEN [got |-> Take(r.rest, n), rd |-> [r EXCEPT !.rest = Drop(r.rest, n)]]
    ELSE LET f == FillBuf(r)
         IN  [got |-> Take(f.buf, n), rd |-> [f EXCEPT !.buf = Drop(f.buf, n)]]

\* The bytes of the first read() in front of those of the later ones.
ReadJoin(first, more) ==
    [ok |-> more.ok, got |-> first.got \o more.got, rd |-> more.rd]

RECURSIVE ReadExact(_, _)
\* read_exact after a read() that returned `first`: no bytes is
\* UnexpectedEof (ok = FALSE), else the rest is read.
ReadMore(first, n) ==
    IF first.got = <<>>
    THEN [ok |-> FALSE, got |-> <<>>, rd |-> first.rd]
    ELSE ReadJoin(first, ReadExact(first.rd, n - Len(first.got)))

\* Read::read_exact for n bytes: read() is called until the n bytes are
\* there.
ReadExact(r, n) ==
    IF n = 0
    THEN [ok |-> TRUE, got |-> <<>>, rd |-> r]
    ELSE ReadMore(BufRead(r, n), n)

\* `self.read_exact(&mut bytes).unwrap()` (bufio.rs:49): the whole array
\* is read again; a failure panics.
ReadAgain(first, again, n) ==
    [bytes |-> IF again.ok THEN again.got ELSE PadZero(first.got, n),
     rd    |-> again.rd,
     panic |-> ~again.ok]

\* A refill after which every short read (len < N) panics.
ReadRefilledFatalOnShort(first, refilled, n) ==
    [bytes |-> PadZero(first.got, n), rd |-> refilled,
     panic |-> Len(first.got) < n]

\* read_ after the refill (bufio.rs:48-50): `if len > 1 && len < N` the
\* array is read again with read_exact.
ReadRefilled(first, refilled, n) ==
    IF Len(first.got) > 1 /\ Len(first.got) < n
    THEN ReadAgain(first, ReadExact(refilled, n), n)
    ELSE [bytes |-> PadZero(first.got, n), rd |-> refilled, panic |-> FALSE]

\* read_ after `self.read(&mut bytes)` returned `first` (bufio.rs:41-52): if
\* the buffer is empty, consume(capacity()) and fill_buf().
ReadArray(first, n) ==
    IF first.rd.buf = <<>>
    THEN ReadRefilled(first, FillBuf(ConsumeCap(first.rd)), n)
    ELSE [bytes |-> PadZero(first.got, n), rd |-> first.rd, panic |-> FALSE]

\* read_::<N> (bufio.rs:38-59): read into a zeroed array, refill an emptied
\* buffer, read again if 1 < len < N.  [bytes, rd, panic].
read_(r, n) == ReadArray(BufRead(r, n), n)

\* read_checked: the rest of a short read, by
\* `read_exact(&mut bytes[len..])`; UnexpectedEof is None (some = FALSE).
ReadCheckedRest(first, more) ==
    [some |-> more.ok, bytes |-> first.got \o more.got, rd |-> more.rd]

\* read_checked after the refill (bufio.rs:71-84).
ReadCheckedRefilled(first, refilled, n) ==
    IF Len(first.got) < n
    THEN ReadCheckedRest(first, ReadExact(refilled, n - Len(first.got)))
    ELSE [some |-> TRUE, bytes |-> first.got, rd |-> refilled]

\* read_checked after `self.read(&mut bytes)` returned `first`
\* (bufio.rs:67-85).
ReadCheckedArray(first, n) ==
    IF first.rd.buf = <<>>
    THEN ReadCheckedRefilled(first, FillBuf(ConsumeCap(first.rd)), n)
    ELSE [some |-> TRUE, bytes |-> PadZero(first.got, n), rd |-> first.rd]

\* read_checked::<N> (bufio.rs:64-87): as read_, but a short read is
\* completed with read_exact, and the end of the file is None.
read_checked(r, n) == ReadCheckedArray(BufRead(r, n), n)

RECURSIVE from_le_bytes(_)
\* uN::from_le_bytes: the least significant byte first.
from_le_bytes(bytes) ==
    IF bytes = <<>> THEN 0
    ELSE Head(bytes) + 256 * from_le_bytes(Tail(bytes))

RECURSIVE to_le_bytes(_, _)
\* uN::to_le_bytes for an n-byte integer.
to_le_bytes(v, n) ==
    IF n = 0 THEN <<>> ELSE <<v % 256>> \o to_le_bytes(v \div 256, n - 1)

\* uN::from_le_bytes on the array read_ returned.
AsInteger(res) ==
    [v |-> from_le_bytes(res.bytes), rd |-> res.rd, panic |-> res.panic]

\* read_u8 / read_byte (bufio.rs:89-91): [v, rd, panic].
read_u8(r) == AsInteger(read_(r, 1))

\* read_u64 (bufio.rs:101-103).
read_u64(r) == AsInteger(read_(r, 8))

\* Option<uN> from the array read_checked returned.
AsIntegerChecked(res) ==
    [some |-> res.some,
     v    |-> IF res.some THEN from_le_bytes(res.bytes) ELSE 0,
     rd   |-> res.rd]

\* read_u8_checked / read_byte_checked (bufio.rs:105-107).
read_u8_checked(r) == AsIntegerChecked(read_checked(r, 1))

\* fill_buffer (bufio.rs:121-128): consume(capacity()), fill_buf();
\* eof: the buffer is empty afterwards.
fill_buffer(r) ==
    LET f == FillBuf(ConsumeCap(r))
    IN  [rd |-> f, eof |-> f.buf = <<>>]

(***************************************************************************)
(* Bounds of the coder runs.                                               *)
(***************************************************************************)

\* The longest input file, in bytes.
MaxLen == 2
\* The largest capacity of the compressor's reader.
MaxCap == 2
\* Decoding of a stream that is not the compressor's stops after this many
\* output bytes.
MaxOut == 3

\* The byte values input files are made of.
ByteSet == {0, 65, 255}

\* BufReader::with_capacity(1 << 20, ..) and BufWriter::with_capacity(1 << 20, ..)
\* of the driver (main.rs:27-37).
DriverCap == 1048576

RECURSIVE SeqsUpTo(_)
\* The byte sequences of length 0..n over ByteSet.
SeqsUpTo(n) ==
    IF n = 0 THEN {<<>>}
    ELSE LET shorter == SeqsUpTo(n - 1)
         IN  shorter \cup {Append(sq, b) : sq \in {t \in shorter : Len(t) = n - 1},
                                            b \in ByteSet}

(***************************************************************************)
(* The Predictor, by its interface to the coder.  Predictor::new sets      *)
(* pr = 2048; p() returns pr, asserted to be in 0..4095 (fpaq.rs:137-140,  *)
(* lpaq1.rs:869-872); update(bit) computes the next pr from the bits seen  *)
(* so far and nothing else.  The encoder and the decoder each own one,     *)
(* built by the same Predictor::new.  Here a predictor is a finite         *)
(* automaton over the coded bits: prf lists the pr of each of its states.  *)
(***************************************************************************)

\* The predictors the runs are checked with: always 2048; the extremes 0 and
\* 4095; three-state mixes with the neighbours of the extremes and of 2048;
\* a five-state one with values in between.
PredSet ==
    { <<2048>>, <<0, 4095>>, <<4095, 0, 1>>, <<1, 4094, 2047>>,
      <<1023, 3072, 17, 4000, 2049>> }

\* Predictor::new (fpaq.rs:118-135, lpaq1.rs:840-866).
PredictorNew == [s |-> 0, pr |-> 2048]

\* Predictor::p (fpaq.rs:137-140, lpaq1.rs:869-872).
PredictorP(pd) == pd.pr

\* Predictor::update(bit) (fpaq.rs:142-168, lpaq1.rs:876-903): the next
\* state from the bit, and its pr.
PredictorUpdate(pd, bit, prf) ==
    LET s2 == (pd.s + bit + 1) % Len(prf)
    IN  [s |-> s2, pr |-> prf[s2 + 1]]

(***************************************************************************)
(* Encoder (fpaq.rs:171-217, lpaq1.rs:932-1001).                           *)
(***************************************************************************)

\* Encoder::new: high = 0xFFFFFFFF, low = 0, a new Predictor.
EncoderNew == [low |-> Zero32, high |-> Max32, pred |-> PredictorNew]

\* A clamp applied to every p: `if p < 4096 { p += 1 }`.
ClampAlways(p) == IF p < 4096 THEN p + 1 ELSE p

\* LPAQ1's clamp: `if p < 2048 { p += 1; }` (lpaq1.rs:955, 1025).
Clamp(p) == IF p < 2048 THEN p + 1 ELSE p

\* What an encode call leaves behind: the encoder, the bytes written and the
\* record of the call, from mid m, the narrowed range nr and the
\* renormalisation rn.
EncodeResult(e, bit, p, prf, m, nr, rn) ==
    [enc   |-> [low  |-> rn.low, high |-> rn.high,
                pred |-> PredictorUpdate(e.pred, bit, prf)],
     bytes |-> rn.bytes,
     call  |-> [low0 |-> e.low, high0 |-> e.high, p |-> p, bit |-> bit,
                mid |-> m.v, carry |-> m.c \/ nr.c, rounds |-> rn.rounds]]

\* predictor.update(bit) and the while loop on the narrowed range nr.
EncodeNarrow(e, bit, p, prf, m, nr) ==
    EncodeResult(e, bit, p, prf, m, nr, EncRenorm(nr.low, nr.high, <<>>, 0))

\* `if bit == 1 { high = mid } else { low = mid + 1 }` for mid m.
EncodeMid(e, bit, p, prf, m) ==
    EncodeNarrow(e, bit, p, prf, m, Narrow(e.low, e.high, m.v, bit))

\* The body shared by Encoder::encode and Encoder::encode_bit once p is
\* known: mid, the narrowing, predictor.update(bit), the renormalisation.
EncodeWith(e, bit, p, prf) == EncodeMid(e, bit, p, prf, MidOf(e.low, e.high, p))

\* FPAQ Encoder::encode(bit) (fpaq.rs:188-206).
encode(e, bit, prf) == EncodeWith(e, bit, PredictorP(e.pred), prf)

\* LPAQ1 Encoder::encode_bit(bit) (lpaq1.rs:953-974).
encode_bit(e, bit, prf) == EncodeWith(e, bit, Clamp(PredictorP(e.pred)), prf)

\* Encoder::flush (fpaq.rs:208-216, lpaq1.rs:976-984): the drain loop, then
\* high >> 24.  Returns the bytes written.
flush(e) ==
    LET rn == EncRenorm(e.low, e.high, <<>>, 0)
    IN  Append(rn.bytes, TopByte(rn.high))

(***************************************************************************)
(* BufWriter<File> (bufio.rs:177-237).  A writer is [buf, pos]: the bytes  *)
(* buffered and the file position; the file is `archive`.                  *)
(***************************************************************************)

\* The file with `bytes` written at position pos.
WriteAt(f, pos, bytes) ==
    Take(f, pos) \o bytes \o Drop(f, pos + Len(bytes))

\* BufWriter::flush: the buffer goes to the file at the file position.
FlushWriter(w, f) ==
    [wr |-> [buf |-> <<>>, pos |-> w.pos + Len(w.buf)],
     file |-> WriteAt(f, w.pos, w.buf)]

\* write_::<N> (bufio.rs:178-184): buffer the bytes; flush when the buffer
\* has reached the capacity.
write_(w, f, bytes) ==
    LET w2 == [w EXCEPT !.buf = w.buf \o bytes]
    IN  IF Len(w2.buf) >= DriverCap THEN FlushWriter(w2, f)
        ELSE [wr |-> w2, file |-> f]

\* BlockData::new (lpaq1.rs:1084-1090).
BlockDataNew(base) == [base_size |-> base, final_size |-> 0, count |-> 0]

\* A BlockData::update that does not count the block.
BlockDataUpdateNoCount(d, size) == [d EXCEPT !.final_size = size]

\* BlockData::update (lpaq1.rs:1100-1103).
BlockDataUpdate(d, size) ==
    [d EXCEPT !.final_size = size, !.count = d.count + 1]

\* A bit order that starts at the least significant bit: (byte >> (7 - i)) & 1.
BitOfLsbFirst(byte, i) == (byte \div (2 ^ (7 - i))) % 2

\* Bit i (7 = most significant) of a byte: (byte >> i) & 1.
BitOf(byte, i) == (byte \div (2 ^ i)) % 2

RECURSIVE WriteBytes(_, _, _)
\* write_u8 / write_u8_forced for each of `bytes` in turn.
WriteBytes(w, f, bytes) ==
    IF bytes = <<>> THEN [wr |-> w, file |-> f]
    ELSE LET one == write_(w, f, <<Head(bytes)>>)
         IN  WriteBytes(one.wr, one.file, Tail(bytes))

(***************************************************************************)
(* The runs: fpaq_compress then fpaq_decompress, or lpaq1_compress then    *)
(* lpaq1_decompress, of one input file.  pc is                             *)
(*   "c_read" / "c_fill"  at the head of the compressor's while loop,      *)
(*   "c_bits"             inside a byte (FPAQ) or a block (LPAQ1),         *)
(*   "c_flush"            before Encoder::flush,                           *)
(*   "c_header"           before Encoder::write_block_data (LPAQ1),        *)
(*   "compressed"         the archive is on disk,                          *)
(*   "d_header", "d_initx", "d_count", "d_block"  (LPAQ1) before           *)
(*                        read_block_data, init_x, the for loop, a block,  *)
(*   "d_head"             (FPAQ) at the head of `while dec.decode() != 0`, *)
(*   "d_bits"             inside a byte,                                   *)
(*   "done"               the decompressor returned,                       *)
(*   "panic"              the decompressor panicked (why says where).      *)
(***************************************************************************)

IsLpaq == run.algo = "lpaq1"
IsFpaq == run.algo = "fpaq"

Runs ==
    [algo : {"fpaq", "lpaq1"}, file : SeqsUpTo(MaxLen), cap : 1..MaxCap,
     prf : PredSet]

\* The state after Encoder::new(file_out): for LPAQ1 the three write_u64(0)
\* of the header are buffered (lpaq1.rs:940-951).
CoderInit ==
    /\ run \in Runs
    /\ pc = IF IsFpaq THEN "c_read" ELSE "c_fill"
    /\ rd = NewReader(run.file, run.cap)
    /\ wr = [buf |-> IF IsLpaq THEN Zeros(24) ELSE <<>>, pos |-> 0]
    /\ archive = <<>>
    /\ enc = EncoderNew
    /\ cur = [block |-> <<>>, i |-> 0, left |-> 0]
    /\ data = BlockDataNew(run.cap)
    /\ call = [low0 |-> Zero32, high0 |-> Max32, p |-> 2048, bit |-> 0,
               mid |-> Zero32, carry |-> FALSE, rounds |-> 0]
    /\ trail = <<>>
    /\ flushed = <<>>
    /\ intact = TRUE
    /\ drd = NewReader(<<>>, DriverCap)
    /\ dec = [low |-> Zero32, high |-> Max32, x |-> Zero32, pred |-> PredictorNew]
    /\ dst = [final_size |-> 0, base_size |-> 0, count |-> 0,
              blocks |-> 0, last |-> FALSE, need |-> 0, block |-> <<>>,
              byte |-> 0, left |-> 0, k |-> 0]
    /\ out = <<>>
    /\ fed = <<>>
    /\ short = 0
    /\ why = ""
    /\ IdleOutsideCoder

decVars == <<intact, drd, dec, dst, out, fed, short, why>>

\* The effect of one encode call e on the encoder, the archive and the
\* histories.
Encoded(e) ==
    /\ enc' = e.enc
    /\ \E w \in {WriteBytes(wr, archive, e.bytes)} :
           wr' = w.wr /\ archive' = w.file
    /\ call' = e.call
    /\ trail' = Append(trail, <<e.enc.low, e.enc.high>>)

\* fpaq_compress: read_u8_checked gave a byte; enc.encode(1)
\* (fpaq.rs:269-270).
FpaqFrameByte ==
    /\ IsFpaq /\ pc = "c_read"
    /\ \E r \in {read_u8_checked(rd)} :
           /\ r.some
           /\ rd' = r.rd
           /\ cur' = [block |-> <<r.v>>, i |-> 1, left |-> 8]
    /\ Encoded(encode(enc, 1, run.prf))
    /\ pc' = "c_bits"
    /\ UNCHANGED <<run, data, flushed, decVars, outsideCoder>>

\* fpaq_compress: enc.encode((byte >> i) & 1) for i = 7..0 (fpaq.rs:271-273).
FpaqEncodeBit ==
    /\ IsFpaq /\ pc = "c_bits"
    /\ Encoded(encode(enc, BitOf(cur.block[1], cur.left - 1), run.prf))
    /\ cur' = [cur EXCEPT !.left = cur.left - 1]
    /\ pc' = IF cur.left = 1 THEN "c_read" ELSE "c_bits"
    /\ UNCHANGED <<run, rd, data, flushed, decVars, outsideCoder>>

\* fpaq_compress: read_u8_checked gave None; enc.encode(0) (fpaq.rs:275).
FpaqTerminate ==
    /\ IsFpaq /\ pc = "c_read"
    /\ \E r \in {read_u8_checked(rd)} :
           /\ ~r.some
           /\ rd' = r.rd
    /\ Encoded(encode(enc, 0, run.prf))
    /\ pc' = "c_flush"
    /\ UNCHANGED <<run, cur, data, flushed, decVars, outsideCoder>>

\* enc.flush() (fpaq.rs:208-216, 276; lpaq1.rs:976-984, 1114): the bytes of
\* flush, then flush_buffer.  For FPAQ the archive is complete.
EncoderFlush ==
    /\ pc = "c_flush"
    /\ LET bytes == flush(enc)
           w     == WriteBytes(wr, archive, bytes)
           f     == FlushWriter(w.wr, w.file)
       IN  /\ flushed' = bytes
           /\ wr' = f.wr
           /\ archive' = f.file
    /\ pc' = IF IsLpaq THEN "c_header" ELSE "compressed"
    /\ UNCHANGED <<run, rd, enc, cur, data, call, trail, decVars, outsideCoder>>

\* lpaq1_compress: fill_buffer found bytes; data.update(len) and
\* encode_block starts (lpaq1.rs:1110-1112).
Lpaq1NextBlock ==
    /\ IsLpaq /\ pc = "c_fill"
    /\ LET f == fill_buffer(rd)
       IN  /\ ~f.eof
           /\ rd' = f.rd
           /\ data' = BlockDataUpdate(data, Len(f.rd.buf))
           /\ cur' = [block |-> f.rd.buf, i |-> 1, left |-> 8]
    /\ pc' = "c_bits"
    /\ UNCHANGED <<run, wr, archive, enc, call, trail, flushed, decVars, outsideCoder>>

\* encode_block: encode_bit((byte >> i) & 1) for the bytes of the block,
\* i = 7..0 (lpaq1.rs:986-992).
Lpaq1EncodeBit ==
    /\ IsLpaq /\ pc = "c_bits"
    /\ Encoded(encode_bit(enc, BitOf(cur.block[cur.i], cur.left - 1), run.prf))
    /\ IF cur.left > 1
       THEN cur' = [cur EXCEPT !.left = cur.left - 1] /\ pc' = "c_bits"
       ELSE IF cur.i < Len(cur.block)
            THEN cur' = [cur EXCEPT !.i = cur.i + 1, !.left = 8] /\ pc' = "c_bits"
            ELSE cur' = [cur EXCEPT !.left = 0] /\ pc' = "c_fill"
    /\ UNCHANGED <<run, rd, data, flushed, decVars, outsideCoder>>

\* lpaq1_compress: fill_buffer is at the end of the file (lpaq1.rs:1110).
Lpaq1EndOfInput ==
    /\ IsLpaq /\ pc = "c_fill"
    /\ LET f == fill_buffer(rd)
       IN  /\ f.eof
           /\ rd' = f.rd
    /\ pc' = "c_flush"
    /\ UNCHANGED <<run, wr, archive, enc, cur, data, call, trail, flushed,
                   decVars, outsideCoder>>

\* enc.write_block_data(data) and the end of lpaq1_compress
\* (lpaq1.rs:995-1000, 1115-1116): rewind the file, write_u64 of final_size,
\* base_size and count; dropping the encoder flushes them over the header.
Lpaq1WriteBlockData ==
    /\ IsLpaq /\ pc = "c_header"
    /\ LET w0 == [wr EXCEPT !.pos = 0]
           w1 == write_(w0, archive, to_le_bytes(data.final_size, 8))
           w2 == write_(w1.wr, w1.file, to_le_bytes(data.base_size, 8))
           w3 == write_(w2.wr, w2.file, to_le_bytes(data.count, 8))
           f  == FlushWriter(w3.wr, w3.file)
       IN  wr' = f.wr /\ archive' = f.file
    /\ pc' = "compressed"
    /\ UNCHANGED <<run, rd, enc, cur, data, call, trail, flushed, decVars, outsideCoder>>

CompressNext ==
    \/ FpaqFrameByte \/ FpaqEncodeBit \/ FpaqTerminate \/ EncoderFlush
    \/ Lpaq1NextBlock \/ Lpaq1EncodeBit \/ Lpaq1EndOfInput \/ Lpaq1WriteBlockData

(***************************************************************************)
(* Decoder (fpaq.rs:219-264, lpaq1.rs:1004-1075).                          *)
(***************************************************************************)

\* Whether the next read finds the stream exhausted.
Exhausted(r) == r.buf = <<>> /\ r.rest = <<>>

\* One more byte b in front of the bytes of `more`; missed: 1 when b was read
\* from an exhausted stream.
FeedJoin(b, missed, more) ==
    [more EXCEPT !.got = <<b>> \o more.got, !.miss = more.miss + missed]

RECURSIVE FeedX(_, _, _)
\* `x = (x << 8) + b`, then the remaining n - 1 bytes.
FeedByte(xv, r, n, b) ==
    IF b.panic
    THEN [x |-> xv, rd |-> b.rd, got |-> <<>>, miss |-> 0, panic |-> TRUE]
    ELSE FeedJoin(b.v, IF Exhausted(r) THEN 1 ELSE 0,
                  FeedX(AddSmall32(Shl8(xv), b.v).v, b.rd, n - 1))

\* n times `x = (x << 8) + read_u8() as u32` (fpaq.rs:236-238,
\* lpaq1.rs:1071-1073).  got: the bytes read_u8 returned; miss: how many of
\* them were read from an exhausted stream.
FeedX(xv, r, n) ==
    IF n = 0
    THEN [x |-> xv, rd |-> r, got |-> <<>>, miss |-> 0, panic |-> FALSE]
    ELSE FeedByte(xv, r, n, read_u8(r))

\* The bytes of f in front of those of the later rounds.
RenormJoin(f, more) ==
    [more EXCEPT !.got = f.got \o more.got, !.miss = more.miss + f.miss]

RECURSIVE DecRenorm(_, _, _, _)
\* One round of the decoder's loop, f being the byte fed into x.
DecShift(low, high, xv, f) ==
    IF f.panic
    THEN [low |-> low, high |-> high, x |-> xv, rd |-> f.rd,
          got |-> <<>>, miss |-> 0, panic |-> TRUE]
    ELSE RenormJoin(f, DecRenorm(ShiftLow(low), ShiftHigh(high), f.x, f.rd))

\* The decoder's while loop (fpaq.rs:257-261, lpaq1.rs:1040-1044): while the
\* top bytes agree, shift high and low and feed one byte into x.
DecRenorm(low, high, xv, r) ==
    IF SameTopByte(high, low)
    THEN DecShift(low, high, xv, FeedX(xv, r, 1))
    ELSE [low |-> low, high |-> high, x |-> xv, rd |-> r,
          got |-> <<>>, miss |-> 0, panic |-> FALSE]

\* A comparison that decodes a 1 only for x < mid.
BitFromStrict(xv, mid) == IF Lt32(xv, mid) THEN 1 ELSE 0

\* `if self.x <= mid { bit = 1 }` (fpaq.rs:247-254, lpaq1.rs:1030-1037).
BitFrom(xv, mid) == IF Le32(xv, mid) THEN 1 ELSE 0

\* What a decode call returns and leaves behind, rn being the outcome of its
\* renormalisation and pred the predictor after update(bit).
DecodeResult(bit, pred, rn) ==
    [dec   |-> [low |-> rn.low, high |-> rn.high, x |-> rn.x, pred |-> pred],
     bit   |-> bit,
     rd    |-> rn.rd,
     got   |-> rn.got,
     miss  |-> rn.miss,
     panic |-> rn.panic]

\* `high = mid` or `low = mid + 1`, predictor.update(bit), the while loop.
DecodeNarrow(d, r, bit, nr, prf) ==
    DecodeResult(bit, PredictorUpdate(d.pred, bit, prf),
                 DecRenorm(nr.low, nr.high, d.x, r))

\* The bit decoded against mid.
DecodeBit(d, r, mid, bit, prf) ==
    DecodeNarrow(d, r, bit, Narrow(d.low, d.high, mid, bit), prf)

\* The body shared by Decoder::decode and Decoder::decode_bit once p is
\* known.
DecodeMid(d, r, mid, prf) == DecodeBit(d, r, mid, BitFrom(d.x, mid), prf)

DecodeWith(d, r, p, prf) == DecodeMid(d, r, MidOf(d.low, d.high, p).v, prf)

\* FPAQ Decoder::decode (fpaq.rs:242-263).
decode(d, r, prf) == DecodeWith(d, r, PredictorP(d.pred), prf)

\* LPAQ1 Decoder::decode_bit (lpaq1.rs:1023-1046).
decode_bit(d, r, prf) == DecodeWith(d, r, Clamp(PredictorP(d.pred)), prf)

\* The effect of one decode call c on the decoder, its reader and the
\* histories; pc is set by the caller unless the call panicked.
Decoded(c) ==
    /\ dec' = c.dec
    /\ drd' = c.rd
    /\ fed' = fed \o c.got
    /\ short' = short + c.miss
    /\ why' = IF c.panic THEN "read" ELSE why

\* The archive handed to the decompressor is a proper prefix of the
\* compressor's: a truncated file.
Truncate ==
    /\ pc = "compressed" /\ intact
    /\ \E n \in 0..(Len(archive) - 1) : archive' = Take(archive, n)
    /\ intact' = FALSE
    /\ UNCHANGED <<run, pc, rd, wr, enc, cur, data, call, trail, flushed,
                   drd, dec, dst, out, fed, short, why, outsideCoder>>

encVars == <<run, rd, wr, archive, enc, cur, data, call, trail, flushed, intact>>

\* fpaq_decompress: Decoder::new seeds x with four bytes (fpaq.rs:228-240, 280).
FpaqDecoderNew ==
    /\ IsFpaq /\ pc = "compressed"
    /\ \E f \in {FeedX(Zero32, NewReader(archive, DriverCap), 4)} :
           /\ dec' = [dec EXCEPT !.x = f.x]
           /\ drd' = f.rd
           /\ fed' = f.got
           /\ short' = f.miss
           /\ why' = IF f.panic THEN "read" ELSE why
           /\ pc' = IF f.panic THEN "panic" ELSE "d_head"
    /\ UNCHANGED <<encVars, dst, out, outsideCoder>>

\* fpaq_decompress: `while dec.decode() != 0` (fpaq.rs:282); on 0 the output
\* is flushed and the function returns (fpaq.rs:286-287).
FpaqDecodeHead ==
    /\ IsFpaq /\ pc = "d_head" /\ Len(out) < MaxOut
    /\ \E c \in {decode(dec, drd, run.prf)} :
           /\ Decoded(c)
           /\ dst' = [dst EXCEPT !.byte = 1, !.left = 8, !.k = dst.k + 1]
           /\ pc' = IF c.panic THEN "panic"
                    ELSE IF c.bit = 0 THEN "done" ELSE "d_bits"
    /\ UNCHANGED <<encVars, out, outsideCoder>>

\* fpaq_decompress: the fold `(acc << 1) + dec.decode()` over a u8, 8 times,
\* then write_u8(byte) (fpaq.rs:283-284).
FpaqDecodeBit ==
    /\ IsFpaq /\ pc = "d_bits"
    /\ \E c \in {decode(dec, drd, run.prf)} :
       LET byte == ((dst.byte * 2) % 256) + c.bit
       IN  /\ Decoded(c)
           /\ dst' = [dst EXCEPT !.byte = byte, !.left = dst.left - 1,
                                 !.k = dst.k + 1]
           /\ out' = IF dst.left = 1 /\ ~c.panic THEN Append(out, byte) ELSE out
           /\ pc' = IF c.panic THEN "panic"
                    ELSE IF dst.left = 1 THEN "d_head" ELSE "d_bits"
    /\ UNCHANGED <<encVars, outsideCoder>>

\* lpaq1_decompress: Decoder::new and read_block_data (lpaq1.rs:1062-1068,
\* 1119-1120): read_u64 of final_size, base_size and count, in this order.
Lpaq1ReadBlockData ==
    /\ IsLpaq /\ pc = "compressed"
    /\ \E r1 \in {read_u64(NewReader(archive, DriverCap))} :
       \E r2 \in {read_u64(r1.rd)} :
       \E r3 \in {read_u64(r2.rd)} :
           IF r1.panic \/ r2.panic \/ r3.panic
           THEN /\ pc' = "panic"
                /\ why' = "read_exact"
                /\ drd' = IF r1.panic THEN r1.rd
                          ELSE IF r2.panic THEN r2.rd ELSE r3.rd
                /\ UNCHANGED dst
           ELSE /\ pc' = "d_initx"
                /\ why' = why
                /\ drd' = r3.rd
                /\ dst' = [dst EXCEPT !.final_size = r1.v, !.base_size = r2.v,
                                      !.count = r3.v]
    /\ UNCHANGED <<encVars, dec, out, fed, short, outsideCoder>>

\* dec.init_x() (lpaq1.rs:1070-1074, 1123).
Lpaq1InitX ==
    /\ IsLpaq /\ pc = "d_initx"
    /\ \E f \in {FeedX(dec.x, drd, 4)} :
           /\ dec' = [dec EXCEPT !.x = f.x]
           /\ drd' = f.rd
           /\ fed' = fed \o f.got
           /\ short' = short + f.miss
           /\ why' = IF f.panic THEN "read" ELSE why
           /\ pc' = IF f.panic THEN "panic" ELSE "d_count"
    /\ UNCHANGED <<encVars, dst, out, outsideCoder>>

\* `0..(data.count - 1)` with count > 0 (lpaq1.rs:1125).
Lpaq1BlockCount ==
    /\ IsLpaq /\ pc = "d_count"
    /\ dst.count > 0
    /\ dst' = [dst EXCEPT !.blocks = dst.count - 1]
    /\ pc' = "d_block"
    /\ UNCHANGED <<encVars, drd, dec, out, fed, short, why, outsideCoder>>

\* `data.count - 1` with count = 0, in a build with overflow checks: the u64
\* subtraction panics.
Lpaq1BlockCountPanics ==
    /\ IsLpaq /\ pc = "d_count"
    /\ dst.count = 0
    /\ pc' = "panic"
    /\ why' = "overflow"
    /\ UNCHANGED <<encVars, drd, dec, dst, out, fed, short, outsideCoder>>

\* `data.count - 1` with count = 0, in a build without overflow checks: the
\* subtraction wraps to 2^64 - 1 blocks, written -1 here.
Lpaq1BlockCountWraps ==
    /\ IsLpaq /\ pc = "d_count"
    /\ dst.count = 0
    /\ dst' = [dst EXCEPT !.blocks = -1]
    /\ pc' = "d_block"
    /\ UNCHANGED <<encVars, drd, dec, out, fed, short, why, outsideCoder>>

\* The next decode_block call (lpaq1.rs:1125-1128, 1048-1050): base_size
\* bytes while blocks are left in the for loop, then final_size bytes.  A
\* block of no bytes is written at once.
Lpaq1DecodeBlock ==
    /\ IsLpaq /\ pc = "d_block" /\ Len(out) < MaxOut
    /\ LET last == dst.blocks = 0
           size == IF last THEN dst.final_size ELSE dst.base_size
           left == IF dst.blocks > 0 THEN dst.blocks - 1 ELSE dst.blocks
       IN  /\ dst' = [dst EXCEPT !.blocks = left, !.last = last, !.need = size,
                                 !.block = <<>>, !.byte = 1]
           /\ pc' = IF size > 0 THEN "d_bits"
                    ELSE IF last THEN "done" ELSE "d_block"
    /\ UNCHANGED <<encVars, drd, dec, out, fed, short, why, outsideCoder>>

\* decode_block: `byte += byte + self.decode_bit()` until byte >= 256, then
\* push byte - 256; a full block is written with write_all, and after the
\* last block the output is flushed (lpaq1.rs:1050-1058, 1126-1129).
Lpaq1DecodeBit ==
    /\ IsLpaq /\ pc = "d_bits"
    /\ \E c \in {decode_bit(dec, drd, run.prf)} :
       LET byte  == dst.byte + dst.byte + c.bit
           full  == byte >= 256
           block == IF full THEN Append(dst.block, byte - 256) ELSE dst.block
           need  == IF full THEN dst.need - 1 ELSE dst.need
       IN  /\ Decoded(c)
           /\ dst' = [dst EXCEPT !.byte = IF full THEN 1 ELSE byte,
                                 !.block = block, !.need = need,
                                 !.k = dst.k + 1]
           /\ out' = IF need = 0 /\ ~c.panic THEN out \o block ELSE out
           /\ pc' = IF c.panic THEN "panic"
                    ELSE IF need > 0 THEN "d_bits"
                    ELSE IF dst.last THEN "done" ELSE "d_block"
    /\ UNCHANGED <<encVars, outsideCoder>>

DecompressNext ==
    \/ Truncate
    \/ FpaqDecoderNew \/ FpaqDecodeHead \/ FpaqDecodeBit
    \/ Lpaq1ReadBlockData \/ Lpaq1InitX
    \/ Lpaq1BlockCount \/ Lpaq1BlockCountPanics \/ Lpaq1BlockCountWraps
    \/ Lpaq1DecodeBlock \/ Lpaq1DecodeBit

CoderNext == CompressNext \/ DecompressNext

SpecCoder == CoderInit /\ [][CoderNext]_vars

(***************************************************************************)
(* Properties of the coder runs.                                           *)
(***************************************************************************)

\* The decoder has been seeded and has not panicked.
Seeded ==
    \/ IsFpaq /\ pc \in {"d_head", "d_bits", "done"}
    \/ IsLpaq /\ pc \in {"d_count", "d_block", "d_bits", "done"}

\* sq is the beginning of whole.
IsPrefix(sq, whole) == Len(sq) <= Len(whole) /\ sq = Take(whole, Len(sq))

\* The header of LPAQ1 takes the first 24 bytes of the archive.
HeaderLen == 24

\* The i-th u64 of the header (0: final_size, 1: base_size, 2: count).
HeaderField(i) == from_le_bytes(SubSeq(archive, 8 * i + 1, 8 * i + 8))

\* The bytes of the archive the decoder's x is fed from.
Payload == IF IsLpaq THEN Drop(archive, HeaderLen) ELSE archive

\* C1: FPAQ round trip.  fpaq_decompress of the stream fpaq_compress wrote
\* for a file F never panics, makes exactly the decode calls the encoder made
\* encode calls, has written a prefix of F at every moment and exactly F when
\* it returns; the stream has at least one byte, for the empty F too.
C1_FpaqRoundTrip ==
    (IsFpaq /\ intact) =>
        /\ pc # "panic"
        /\ (pc = "compressed" => Len(archive) >= 1)
        /\ (Seeded => /\ IsPrefix(out, run.file)
                      /\ dst.k <= Len(trail)
                      /\ (pc = "done" <=> dst.k = Len(trail)))
        /\ (pc = "done" => out = run.file)

\* A file of several bytes, not all alike, has made the round trip.
C1_Witness ==
    /\ IsFpaq /\ intact /\ pc = "done"
    /\ Len(run.file) >= 2 /\ run.file[1] # run.file[2]
    /\ out = run.file

\* C2: LPAQ1 round trip.  lpaq1_decompress of the archive lpaq1_compress
\* wrote for a file F, the empty file included, never panics, never writes
\* more than F and has written exactly F when it returns.
C2_Lpaq1RoundTrip ==
    (IsLpaq /\ intact) =>
        /\ pc # "panic"
        /\ (Seeded => IsPrefix(out, run.file))
        /\ (pc = "done" => out = run.file)

\* C3: the encoder's range.  After every encode / encode_bit call
\* low <= high and the top bytes of low and high differ; in the call,
\* low <= mid < high whenever low < high, and neither mid nor mid + 1
\* overflowed 32 bits.
C3_EncoderRange ==
    (pc \in {"c_read", "c_fill", "c_bits", "c_flush"}) =>
        /\ Le32(enc.low, enc.high)
        /\ ~SameTopByte(enc.low, enc.high)
        /\ (trail # <<>> =>
              /\ call.p \in 0..4095
              /\ (Lt32(call.low0, call.high0) =>
                    /\ Le32(call.low0, call.mid)
                    /\ Lt32(call.mid, call.high0)
                    /\ ~call.carry))

\* An encode call with p = 4095 and one with p = 0 have renormalised, the
\* second one four times.
C3_Witness ==
    /\ pc = "c_bits"
    /\ call.p = 0 /\ call.bit = 1 /\ call.rounds = 4
    /\ Len(trail) >= 2

\* C4: the decoder's code register.  On the encoder's stream, once x is
\* seeded and after every decode call, low <= x <= high, and after its k-th
\* call the decoder's (low, high) are the encoder's after its k-th call.
C4_DecoderTracksEncoder ==
    (intact /\ Seeded) =>
        /\ Le32(dec.low, dec.x) /\ Le32(dec.x, dec.high)
        /\ (dst.k \in 1..Len(trail) => <<dec.low, dec.high>> = trail[dst.k])

\* The decoder has followed the encoder through a whole file of several
\* bytes, feeding x in its loop, past the end of the stream too.
C4_Witness ==
    /\ intact /\ pc = "done" /\ Len(run.file) >= 2
    /\ dst.k = Len(trail)
    /\ <<dec.low, dec.high>> = trail[dst.k]
    /\ Len(fed) > 4 /\ short > 0

\* C7: one flush byte.  Encoder::flush, after any sequence of encode calls,
\* writes exactly one byte, high >> 24: encode returned with the top bytes of
\* low and high different, so the drain loop does not run.  The FPAQ stream
\* ends with that byte.
C7_OneFlushByte ==
    /\ (pc = "c_flush" => ~SameTopByte(enc.low, enc.high))
    /\ (pc \in {"c_header", "compressed"} =>
          /\ flushed = <<TopByte(enc.high)>>
          /\ (IsFpaq /\ intact =>
                /\ archive # <<>>
                /\ archive[Len(archive)] = TopByte(enc.high)))

\* flush has run after the encoding of a file whose stream has more bytes
\* than the flush byte.
C7_Witness ==
    /\ IsFpaq /\ intact /\ pc = "compressed"
    /\ Len(run.file) >= 1 /\ Len(archive) >= 2
    /\ flushed = <<TopByte(enc.high)>>

\* C8: the LPAQ1 header.  After lpaq1_compress of a file of L >= 1 bytes
\* read through a reader of capacity C the header holds base_size = C,
\* count = ceil(L / C) and 1 <= final_size <= C, with
\* (count - 1) * base_size + final_size = L; lpaq1_decompress reads these
\* fields and has written that many bytes when it returns.
C8_HeaderAccounts ==
    (IsLpaq /\ intact /\ Len(run.file) >= 1) =>
        /\ (pc \in {"compressed", "d_initx", "d_count", "d_block", "d_bits", "done"} =>
              /\ HeaderField(1) = run.cap
              /\ HeaderField(2) = (Len(run.file) + run.cap - 1) \div run.cap
              /\ HeaderField(0) \in 1..run.cap
              /\ (HeaderField(2) - 1) * HeaderField(1) + HeaderField(0)
                   = Len(run.file))
        /\ (pc \in {"d_initx", "d_count", "d_block", "d_bits", "done"} =>
              /\ dst.final_size = HeaderField(0)
              /\ dst.base_size = HeaderField(1)
              /\ dst.count = HeaderField(2))
        /\ (pc = "done" =>
              Len(out) = (dst.count - 1) * dst.base_size + dst.final_size)

\* A file of several blocks has been compressed and decompressed.
C8_Witness ==
    /\ IsLpaq /\ intact /\ pc = "done"
    /\ dst.count >= 2 /\ dst.final_size >= 1
    /\ Len(out) = (dst.count - 1) * dst.base_size + dst.final_size

\* A word of the LPAQ1 header was read with fewer than 8 bytes left.
HeaderShort ==
    /\ IsLpaq /\ Len(archive) < HeaderLen
    /\ pc \in {"d_initx", "d_count", "d_block", "d_bits", "done", "panic"}

MaxArgs == 5

\* The exit status of a Rust process that panicked.
PanicStatus == 101

Algorithms == {"-lz77", "-lzw", "-flzp", "-fpaq", "-lpaq1", "-huffman", "-bwt"}
Modes == {"-c", "-d"}

\* The 14 arms of `match (algorithm, mode)` (main.rs:39-99).
Supported == Algorithms \X Modes

\* The invocations: the first n of ALGO MODE INPUT OUTPUT and one argument
\* more, ALGO and MODE being a known or an unknown word.
ArgLists ==
    { Take(<<a, m, "in", "out", "extra">>, n) :
        a \in Algorithms \cup {"-zip"}, m \in Modes \cup {"-x"}, n \in 0..MaxArgs }

DriverInit ==
    /\ dpc = "main"
    /\ args \in ArgLists
    /\ inputOpens \in BOOLEAN
    /\ outputCreates \in BOOLEAN
    /\ outputCreated = FALSE
    /\ usagePrinted = FALSE
    /\ status = -1
    /\ IdleOutsideDriver

\* print_usage (main.rs:112-137): println!, then std::process::exit(0).
print_usage ==
    /\ usagePrinted' = TRUE
    /\ status' = 0
    /\ dpc' = "exited"

\* A panic of the main thread ends the process.
Panics ==
    /\ status' = PanicStatus
    /\ dpc' = "exited"
    /\ UNCHANGED usagePrinted

\* `if args.len() != 4 { print_usage(); }` (main.rs:17-20).
ArgCount ==
    /\ dpc = "main"
    /\ IF Len(args) # 4
       THEN print_usage
       ELSE dpc' = "open_input" /\ UNCHANGED <<usagePrinted, status>>
    /\ UNCHANGED <<args, inputOpens, outputCreates, outputCreated,
                   outsideDriver>>

\* File::open(file_in_str).unwrap_or_else(|_| panic!(..)) (main.rs:27-31).
OpenInput ==
    /\ dpc = "open_input"
    /\ IF inputOpens
       THEN dpc' = "create_output" /\ UNCHANGED <<usagePrinted, status>>
       ELSE Panics
    /\ UNCHANGED <<args, inputOpens, outputCreates, outputCreated,
                   outsideDriver>>

\* File::create(file_out_str).unwrap_or_else(|_| panic!(..)) (main.rs:33-37):
\* the file is created, or truncated if it exists.
CreateOutput ==
    /\ dpc = "create_output"
    /\ IF outputCreates
       THEN /\ outputCreated' = TRUE
            /\ dpc' = "match"
            /\ UNCHANGED <<usagePrinted, status>>
       ELSE Panics /\ UNCHANGED outputCreated
    /\ UNCHANGED <<args, inputOpens, outputCreates, outsideDriver>>

\* `match (algorithm, mode)` (main.rs:39-103): one of the 14 arms, or
\* `_ => print_usage()`.
Match ==
    /\ dpc = "match"
    /\ IF <<args[1], args[2]>> \in Supported
       THEN dpc' = "running" /\ UNCHANGED <<usagePrinted, status>>
       ELSE print_usage
    /\ UNCHANGED <<args, inputOpens, outputCreates, outputCreated,
                   outsideDriver>>

\* The compressor or decompressor returns; main prints the sizes and
\* returns (main.rs:105-110).
AlgorithmReturns ==
    /\ dpc = "running"
    /\ status' = 0
    /\ dpc' = "exited"
    /\ UNCHANGED <<args, inputOpens, outputCreates, outputCreated, usagePrinted,
                   outsideDriver>>

\* The compressor or decompressor panics.
AlgorithmPanics ==
    /\ dpc = "running"
    /\ Panics
    /\ UNCHANGED <<args, inputOpens, outputCreates, outputCreated,
                   outsideDriver>>

DriverNext ==
    \/ ArgCount \/ OpenInput \/ CreateOutput \/ Match
    \/ AlgorithmReturns \/ AlgorithmPanics

SpecDriver == DriverInit /\ [][DriverNext]_vars

\* The invocation is one the driver answers with the usage text: not 4
\* arguments, or a pair (ALGO, MODE) that is not supported.
UsageCase == Len(args) # 4 \/ <<args[1], args[2]>> \notin Supported

\* C10: usage handling.  For an invocation with an argument count other than
\* 4, or with an unsupported (ALGO, MODE) pair, the driver does nothing but
\* print the usage text and exit with status 0, whether or not INPUT opens
\* and OUTPUT can be created: it never panics, never creates OUTPUT, and has
\* printed the usage text when it has exited.
C10_UsageOnly ==
    (dpc # "idle" /\ UsageCase) =>
        /\ status \in {-1, 0}
        /\ ~outputCreated
        /\ (dpc = "exited" => usagePrinted /\ status = 0)

(***************************************************************************)
(* bwt/bwt.rs and lz/lzw.rs: a file through the compressing function and   *)
(* the archive through the decompressing one, as the driver calls them.    *)
(* cpc is                                                                  *)
(*   "head"        lzw_compress is about to read its first byte,           *)
(*   "compress"    at the head of the compressing function's loop,         *)
(*   "compressed"  the compressing function has returned,                  *)
(*   "decompress"  at the head of the decompressing function's loop,       *)
(*   "done"        the decompressing function has returned,                *)
(*   "panic"       one of them has panicked.                               *)
(***************************************************************************)

\* The longest input file of a codec run, in bytes.
CodecMaxLen == 4
\* The largest scale of the readers' capacity.
CodecMaxCap == 3

\* block_cmp (bwt.rs:90-103) for indices a, b counted from 0: the common
\* length of the two suffixes first, then the remainders with wraparound.
\* cmp is Ord::cmp on slices: lexicographic, a proper prefix being Less
\* (-1: Less, 0: Equal, 1: Greater).
block_cmp(a, b, block) ==
    LET RECURSIVE cmp(_, _)
        cmp(x, y) ==
            IF x = <<>> THEN (IF y = <<>> THEN 0 ELSE -1)
            ELSE IF y = <<>> THEN 1
            ELSE IF Head(x) < Head(y) THEN -1
            ELSE IF Head(x) > Head(y) THEN 1
            ELSE cmp(Tail(x), Tail(y))
        len  == Len(block)
        min  == Min(len - a, len - b)
        head == cmp(SubSeq(block, a + 1, a + min), SubSeq(block, b + 1, b + min))
    IN  IF head = 0
        THEN cmp(SubSeq(block, a + min + 1, len) \o SubSeq(block, 1, a),
                 SubSeq(block, b + min + 1, len) \o SubSeq(block, 1, b))
        ELSE head

\* indices.sort_by(block_cmp) on 0..len-1 (bwt.rs:20-24): the sort is stable,
\* so an index comes after the indices that compare Less and after the
\* smaller indices that compare Equal.
sort_by(block) ==
    LET idx == 0..(Len(block) - 1)
        before(a) == { b \in idx : \/ block_cmp(b, a, block) = -1
                                   \/ block_cmp(b, a, block) = 0 /\ b < a }
    IN  [i \in 1..Len(block) |-> CHOOSE a \in idx : Cardinality(before(a)) = i - 1]

\* The bytes bwt_inverse_transform writes for the buffer buf and the index
\* read before it (bwt.rs:62-85), indices counted from 0.  transform: byte i
\* of the buffer goes to the place cumul[byte] + count[byte].  walk: n times
\* write buffer()[index], then index = transform[index].
InverseBlock(buf, index) ==
    LET idx == 0..(Len(buf) - 1)
        place(i) == Cardinality({k \in idx : buf[k + 1] < buf[i + 1]})
                    + Cardinality({k \in idx : k < i /\ buf[k + 1] = buf[i + 1]})
        transform == [j \in idx |-> CHOOSE i \in idx : place(i) = j]
        RECURSIVE walk(_, _)
        walk(at, n) ==
            IF n = 0 THEN <<>>
            ELSE <<buf[at + 1]>> \o walk(transform[at], n - 1)
    IN  walk(index, Len(buf))

\* One pass of bwt_transform's loop (bwt.rs:13-49): at the end of the input
\* flush and return; else sort the indices of the block, take the byte
\* before each and the place of index 1 (primary_index.unwrap() panics if
\* there is none), write_u64 the place and write the bytes.
BwtTransformBlock ==
    /\ codec = "bwt" /\ cpc = "compress"
    /\ \E f \in {fill_buffer(crd)} :
         /\ crd' = f.rd
         /\ IF f.eof
            THEN cpc' = "compressed" /\ UNCHANGED carch
            ELSE \E indices \in {sort_by(f.rd.buf)} :
                 LET block   == f.rd.buf
                     len     == Len(block)
                     bwt     == [i \in 1..len |->
                                   IF indices[i] = 0 THEN block[len]
                                   ELSE block[indices[i]]]
                     primary == {i \in 0..(len - 1) : indices[i + 1] = 1}
                 IN  IF primary = {}
                     THEN cpc' = "panic" /\ UNCHANGED carch
                     ELSE /\ carch' = carch \o to_le_bytes(CHOOSE i \in primary : TRUE, 8)
                                            \o bwt
                          /\ cpc' = "compress"
    /\ UNCHANGED <<codecRun, cst, cout, outsideCodec>>

\* One pass of bwt_inverse_transform's loop (bwt.rs:55-88): at the end of
\* the input flush and return; else read_u64 the index and walk the
\* transform of the rest of the buffer.  buffer()[index] panics on an index
\* outside the buffer.
BwtInverseBlock ==
    /\ codec = "bwt" /\ cpc = "decompress"
    /\ \E f \in {fill_buffer(crd)} :
         IF f.eof
         THEN crd' = f.rd /\ cpc' = "done" /\ UNCHANGED cout
         ELSE \E r \in {read_u64(f.rd)} :
              /\ crd' = r.rd
              /\ IF r.panic \/ (r.rd.buf # <<>> /\ r.v >= Len(r.rd.buf))
                 THEN cpc' = "panic" /\ UNCHANGED cout
                 ELSE /\ cout' = cout \o InverseBlock(r.rd.buf, r.v)
                      /\ cpc' = "decompress"
    /\ UNCHANGED <<codecRun, cst, carch, outsideCodec>>

\* MAX_CODE (lzw.rs:9).
MAX_CODE == 65535

\* The dictionary both functions of lzw start from (lzw.rs:14-16, 52-54):
\* a code for every byte.
LzwDictNew(compress) ==
    IF compress THEN [str \in {<<i>> : i \in 0..255} |-> str[1]]
    ELSE [i \in 0..255 |-> <<i>>]

\* `if dict_code >= MAX_CODE { dict_code = 256; dict.retain(..) }`
\* (lzw.rs:42-45, 75-78) on the locals l.
LzwReset(l, compress) ==
    IF l.dict_code >= MAX_CODE
    THEN [l EXCEPT !.dict_code = 256, !.dict = LzwDictNew(compress)]
    ELSE l

RECURSIVE LzwMatch(_, _, _)
\* The inner loop of lzw_compress (lzw.rs:21-32): push bytes onto the
\* string while the dictionary has it.  eof: read_u8_checked gave None.
LzwMatch(r, string, dict) ==
    IF string \notin DOMAIN dict
    THEN [eof |-> FALSE, string |-> string, rd |-> r]
    ELSE LET byte == read_u8_checked(r)
         IN  IF byte.some
             THEN LzwMatch(byte.rd, Append(string, byte.v), dict)
             ELSE [eof |-> TRUE, string |-> string, rd |-> byte.rd]

\* The state at the entry of the compressing function; for bwt after
\* `file_out.write_u64(file_in.capacity() as u64)` (bwt.rs:11).  The
\* capacity of the driver's readers is even (1 << 20, main.rs:27-31); the
\* runs of lzw, which reads its archive two bytes at a time, keep it so.
CodecInit ==
    /\ codec \in {"bwt", "lzw"}
    /\ cfile \in SeqsUpTo(CodecMaxLen)
    /\ ccap \in 1..CodecMaxCap
    /\ cpc = IF codec = "bwt" THEN "compress" ELSE "head"
    /\ crd = NewReader(cfile, IF codec = "bwt" THEN ccap ELSE 2 * ccap)
    /\ cst = IF codec = "bwt" THEN <<>>
             ELSE [dict_code |-> 256, dict |-> LzwDictNew(TRUE), string |-> <<>>]
    /\ carch = IF codec = "bwt" THEN to_le_bytes(ccap, 8) ELSE <<>>
    /\ cout = <<>>
    /\ IdleOutsideCodec

\* `let mut string = vec![file_in.read_u8()]` (lzw.rs:18).
LzwCompressHead ==
    /\ codec = "lzw" /\ cpc = "head"
    /\ \E byte \in {read_u8(crd)} :
         /\ crd' = byte.rd
         /\ IF byte.panic
            THEN cpc' = "panic" /\ UNCHANGED cst
            ELSE cpc' = "compress" /\ cst' = [cst EXCEPT !.string = <<byte.v>>]
    /\ UNCHANGED <<codecRun, carch, cout, outsideCodec>>

\* One pass of lzw_compress's outer loop (lzw.rs:20-46): extend the string
\* while the dictionary has it; at the end of the input write its code and
\* return; else enter it at dict_code, write the code of the string without
\* its last byte, go on from that byte, and reset a full dictionary.
LzwCompressStep ==
    /\ codec = "lzw" /\ cpc = "compress"
    /\ \E m \in {LzwMatch(crd, cst.string, cst.dict)} :
         /\ crd' = m.rd
         /\ IF m.eof
            THEN /\ carch' = carch \o to_le_bytes(cst.dict[m.string], 2)
                 /\ cst' = [cst EXCEPT !.string = m.string]
                 /\ cpc' = "compressed"
            ELSE LET len    == Len(m.string)
                     prefix == SubSeq(m.string, 1, len - 1)
                 IN  /\ carch' = carch \o to_le_bytes(cst.dict[prefix], 2)
                     /\ cst' = LzwReset([dict_code |-> cst.dict_code + 1,
                                         dict      |-> (m.string :> cst.dict_code) @@ cst.dict,
                                         string    |-> <<m.string[len]>>], TRUE)
                     /\ cpc' = "compress"
    /\ UNCHANGED <<codecRun, cout, outsideCodec>>

\* The driver opens the archive for the decompressing function.  lzw: the
\* reader of main.rs:27-31.  bwt: the arm ("-bwt", "-d") (main.rs:79-97)
\* reads the first 8 bytes as the block size and wraps the file in a
\* BufReader of capacity block_size + 8.
OpenArchive ==
    /\ cpc = "compressed"
    /\ crd' = IF codec = "bwt"
              THEN NewReader(Drop(carch, 8),
                             from_le_bytes(PadZero(Take(carch, 8), 8)) + 8)
              ELSE NewReader(carch, 2 * ccap)
    /\ cst' = IF codec = "bwt" THEN <<>>
              ELSE [dict_code |-> 256, dict |-> LzwDictNew(FALSE),
                    prev_string |-> <<>>]
    /\ cpc' = "decompress"
    /\ UNCHANGED <<codecRun, carch, cout, outsideCodec>>

\* One pass of lzw_decompress's loop (lzw.rs:58-79): read a code, make the
\* entry for it (none at the first code), write the code's string and reset
\* a full dictionary.  prev_string[0] panics on a first code that is not in
\* the dictionary.
LzwDecompressStep ==
    /\ codec = "lzw" /\ cpc = "decompress"
    /\ \E code \in {AsIntegerChecked(read_checked(crd, 2))} :
         /\ crd' = code.rd
         /\ IF ~code.some
            THEN cpc' = "done" /\ UNCHANGED <<cst, cout>>
            ELSE IF code.v \notin DOMAIN cst.dict /\ cst.prev_string = <<>>
            THEN cpc' = "panic" /\ UNCHANGED <<cst, cout>>
            ELSE LET prev == cst.prev_string
                     l == IF code.v \notin DOMAIN cst.dict
                          THEN [cst EXCEPT
                                  !.dict = (code.v :> Append(prev, prev[1])) @@ cst.dict,
                                  !.dict_code = cst.dict_code + 1]
                          ELSE IF prev # <<>>
                          THEN [cst EXCEPT
                                  !.dict = (cst.dict_code :> Append(prev, cst.dict[code.v][1]))
                                           @@ cst.dict,
                                  !.dict_code = cst.dict_code + 1]
                          ELSE cst
                 IN  /\ cout' = cout \o l.dict[code.v]
                     /\ cst' = LzwReset([l EXCEPT !.prev_string = l.dict[code.v]], FALSE)
                     /\ cpc' = "decompress"
    /\ UNCHANGED <<codecRun, carch, outsideCodec>>

CodecNext ==
    \/ BwtTransformBlock
    \/ BwtInverseBlock
    \/ LzwCompressHead
    \/ LzwCompressStep
    \/ OpenArchive
    \/ LzwDecompressStep

SpecCodec == CodecInit /\ [][CodecNext]_vars

\* A run of the codec c has not panicked and, once the decompressing
\* function has returned, its output is the input file.
RoundTrip(c) ==
    codec = c => /\ cpc # "panic"
                 /\ (cpc = "done" => cout = cfile)

\* C11: BWT round trip.  For every file F and every block that arises, a
\* block or a whole file of one byte included, bwt_transform finds a primary
\* index, neither function panics, and bwt_inverse_transform has written
\* exactly F when it returns.
C11_BwtRoundTrip == RoundTrip("bwt")

\* With no block of one byte (the length of F is not 1 more than a multiple
\* of the block size) the BWT round trip holds.
BwtBlocksOfTwo == (Len(cfile) % ccap # 1 % ccap) => RoundTrip("bwt")

\* C12: LZW round trip.  For every file F, the empty file included,
\* lzw_decompress applied to the output of lzw_compress(F) writes exactly F,
\* also across the resets of the dictionary at dict_code >= 65535.
C12_LzwRoundTrip == RoundTrip("lzw")

\* For every file that is not empty the LZW round trip holds.
LzwNotEmpty == cfile # <<>> => RoundTrip("lzw")

(***************************************************************************)
(* ari/lpaq1.rs: the parts of the Predictor, each run on its own.          *)
(* part = "hash": HashTable::new(MEM * 2), then any calls of hash with     *)
(* writes through the pointer it returned in between.                      *)
(* part = "match": MatchModel::new(MEM), then MatchModel::p with every bit  *)
(* of a file, as Predictor::update calls it.                               *)
(***************************************************************************)

\* MEM = 1 << 23 (lpaq1.rs:14) and the state array length B (lpaq1.rs:361).
MEM == 8388608
B == 16

\* a.wrapping_mul(k) on u32, by 16-bit halves and bytes so that no
\* intermediate product exceeds 31 bits.
Mul32(a, k) ==
    LET low16(x, y) == ((x % 256) * y + (((x \div 256) * y) % 256) * 256) % 65536
        p0 == (a.l % 256) * k.l
        p1 == (a.l \div 256) * k.l
        low == p0 + (p1 % 256) * 256
    IN  U32(((low \div 65536) + (p1 \div 256) + low16(a.h, k.l) + low16(a.l, k.h))
              % 65536,
            low % 65536)

\* The head of hash (lpaq1.rs:384-387) for the context c, a u32: the mixed
\* value's top byte is the checksum, its low bits times B the index
\* `(i * B) & (self.size - B)`.  rotate_right(16) swaps the halves.  The
\* size is the one Predictor::new makes the table with, MEM * 2
\* (lpaq1.rs:843).
HashMix(c32) ==
    LET m1  == Mul32(c32, U32(123456791 \div 65536, 123456791 % 65536))
        m   == Mul32(U32(m1.l, m1.h), U32(234567891 \div 65536, 234567891 % 65536))
        slots == (MEM * 2) \div B
    IN  [chksum |-> TopByte(m),
         i |-> B * (IF slots >= 65536
                    THEN (m.h % (slots \div 65536)) * 65536 + m.l
                    ELSE m.l % slots)]

\* t[a], t[a] = b on the table kept by its bytes that are not 0.
Peek(t, a) == IF a \in DOMAIN t THEN t[a] ELSE 0
Poke(t, a, b) ==
    [x \in (DOMAIN t \ {a}) \cup (IF b = 0 THEN {} ELSE {a}) |->
        IF x = a THEN b ELSE t[x]]

\* i ^ b for a power of two b.
Flip(i, b) == IF (i \div b) % 2 = 0 THEN i + b ELSE i - b

\* hash without its third probe.
hashTwoProbes(t, i, chksum) ==
    LET i1 == IF \/ Peek(t, i + 1) > Peek(t, Flip(i + 1, B))
                 \/ Peek(t, i + 1) > Peek(t, Flip(i + 1, B * 2))
              THEN Flip(i, B) ELSE i
        i2 == IF Peek(t, i1 + 1) > Peek(t, Flip(Flip(i1 + 1, B), B * 2))
              THEN Flip(Flip(i1, B), B * 2) ELSE i1
    IN  IF Peek(t, i) = chksum THEN [t |-> t, ptr |-> i]
        ELSE IF Peek(t, Flip(i, B)) = chksum THEN [t |-> t, ptr |-> Flip(i, B)]
        ELSE [t |-> Poke([x \in DOMAIN t \ (i2..(i2 + B - 1)) |-> t[x]], i2, chksum),
              ptr |-> i2]

\* The rest of hash (lpaq1.rs:389-404) on the table t: the three probes,
\* then the choice of the slot to replace, `fill(0)` and the checksum.
\* [t, ptr]: the table after the call and the index the returned pointer
\* points to.
hash(t, i, chksum) ==
    LET i1 == IF \/ Peek(t, i + 1) > Peek(t, Flip(i + 1, B))
                 \/ Peek(t, i + 1) > Peek(t, Flip(i + 1, B * 2))
              THEN Flip(i, B) ELSE i
        i2 == IF Peek(t, i1 + 1) > Peek(t, Flip(Flip(i1 + 1, B), B * 2))
              THEN Flip(Flip(i1, B), B * 2) ELSE i1
    IN  IF Peek(t, i) = chksum THEN [t |-> t, ptr |-> i]
        ELSE IF Peek(t, Flip(i, B)) = chksum THEN [t |-> t, ptr |-> Flip(i, B)]
        ELSE IF Peek(t, Flip(i, B * 2)) = chksum THEN [t |-> t, ptr |-> Flip(i, B * 2)]
        ELSE [t |-> Poke([x \in DOMAIN t \ (i2..(i2 + B - 1)) |-> t[x]], i2, chksum),
              ptr |-> i2]

\* The contexts hash is called with: four whose index is 0 (0 itself, whose
\* checksum is 0 as well, and three of different checksums) and one whose
\* index is B, so that all of them probe among the slots 0, B, 2B and 3B.
HashContexts == {0, 2553008, 3327312, 4101616, 542151}
\* The largest byte the callers write through the pointer, at offset 1.
HashMaxState == 1

\* MAX_LEN (lpaq1.rs:217).
MAX_LEN == 62

\* The longest file whose bits MatchModel::p is called with, in bytes, and
\* the bytes of the files: 0, which the new buffer is full of, and two
\* bytes that differ in their last bit.
MatchMaxLen == 5
MatchBytes == {0, 64, 65}

RECURSIVE BitsOf(_)
\* The bits of a file in the order they are coded: every byte from its
\* most significant bit (lpaq1.rs:1100-1103).
BitsOf(bytes) ==
    IF bytes = <<>> THEN <<>>
    ELSE [k \in 1..8 |-> (Head(bytes) \div 2 ^ (8 - k)) % 2] \o BitsOf(Tail(bytes))

\* The files the context models code: up to ModelMaxLen bytes among
\* ModelBytes, a letter (the word model hashes letters only) and three
\* bytes whose contexts meet in the table.
ModelMaxLen == 3
ModelBytes == {0, 92, 97, 236}

\* The state after construction of the part that runs.  "hash": the table
\* of HashTable::new (lpaq1.rs:371-379), all zero.  "match": MatchModel::new
\* (lpaq1.rs:235-250) and the bits of a file.  "models": the context models
\* of Predictor::new (lpaq1.rs:840-866), the shared table, and the bits of a
\* file.  Predictor::new points every model's state at p.cm1.t0[0] and then
\* returns p by value: state points into t0 of the Predictor the caller
\* holds ("t0") or at the place p was built at ("stale"), as the build
\* passes the value; both are kept.  Of a model: slot is the index hash
\* returned for state (-1: state is not from hash), since the bits coded
\* after that, lost whether a later call of hash installed another context
\* in that slot.
PartsInit ==
    /\ part \in {"hash", "match", "models"}
    /\ ppc = "run"
    /\ pin \in CASE part = "match" ->
                      {BitsOf(f) : f \in UNION {[1..n -> MatchBytes] : n \in 0..MatchMaxLen}}
                 [] part = "models" ->
                      {BitsOf(f) : f \in UNION {[1..n -> ModelBytes] : n \in 0..ModelMaxLen}}
                 [] OTHER -> {<<>>}
    /\ ht = <<>>
    /\ hcall = IF part = "hash" THEN [op |-> "new"] ELSE <<>>
    /\ mm = IF part = "match"
            THEN [match_ptr |-> 0, match_len |-> 0, cxt |-> 1, bits |-> 0,
                  hash_s |-> 0, hash_l |-> 0, buf_pos |-> 0, buf |-> <<>>,
                  ht |-> <<>>, under |-> FALSE]
            ELSE <<>>
    /\ mcall = IF part = "match" THEN [op |-> "new"] ELSE <<>>
    /\ \E loc \in {"t0", "stale"} :
         cm = IF part = "models"
              THEN [k \in {"wm", "cm1", "cm2", "cm3", "cm4", "cm6"} |->
                      [bits |-> 0, cxt |-> 1, cxt4 |-> Zero32, ctx |-> Zero32,
                       state |-> [loc |-> loc, at |-> 0],
                       slot |-> -1, since |-> <<>>, lost |-> FALSE]]
              ELSE <<>>
    /\ t0 = <<>>
    /\ cmcall = IF part = "models" THEN [op |-> "new"] ELSE <<>>
    /\ IdleOutsideParts

\* The slots hash probes for the index i, in the order of the probes.
Probed(i) == <<i, Flip(i, B), Flip(i, B * 2)>>

\* A call hash(c).  hcall keeps, with the context and the result: the first
\* probed slot that held the checksum at entry (found, 0: none), the byte 1
\* of the probed slots at entry (prio), whether the call left the table as
\* it was (kept), whether the action before was a call with the same context
\* (again), whether that call returned the same slot (same) and whether it
\* had found no checksum (installed).
HashCall ==
    /\ part = "hash"
    /\ \E c \in HashContexts : \E m \in {HashMix(U32(c \div 65536, c % 65536))} :
       \E r \in {hash(ht, m.i, m.chksum)} :
         /\ ht' = r.t
         /\ hcall' = [op |-> "hash", ctx |-> c, i |-> m.i, ptr |-> r.ptr,
                      found |-> IF \E k \in 1..3 : Peek(ht, Probed(m.i)[k]) = m.chksum
                                THEN CHOOSE k \in 1..3 :
                                       /\ Peek(ht, Probed(m.i)[k]) = m.chksum
                                       /\ \A j \in 1..(k - 1) :
                                             Peek(ht, Probed(m.i)[j]) # m.chksum
                                ELSE 0,
                      prio |-> [k \in 1..3 |-> Peek(ht, Probed(m.i)[k] + 1)],
                      kept |-> r.t = ht,
                      again |-> hcall.op = "hash" /\ hcall.ctx = c,
                      same |-> hcall.op = "hash" /\ hcall.ptr = r.ptr,
                      installed |-> hcall.op = "hash" /\ hcall.found = 0]
    /\ UNCHANGED <<part, ppc, pin, mm, mcall, cm, t0, cmcall, outsideParts>>

\* The caller writes a byte through the pointer hash returned, as the
\* context models do with `*self.state = next_state(..)`.
HashWrite ==
    /\ part = "hash" /\ hcall.op # "new"
    /\ \E v \in 1..HashMaxState : ht' = Poke(ht, hcall.ptr + 1, v)
    /\ hcall' = [hcall EXCEPT !.op = "write"]
    /\ UNCHANGED <<part, ppc, pin, mm, mcall, cm, t0, cmcall, outsideParts>>

\* find_match (lpaq1.rs:326-341) on the MatchModel m.  Indices are usize:
\* a subtraction below 0 panics or wraps with the build, so the wrapped
\* value is kept and m.under set.  The while loop runs with match_len = len
\* on m1(len) and m2(len), as long as goes(len); it ends at the first len
\* that stops it, or at MAX_LEN.
find_match(m, h) ==
    LET size == MEM \div 2
        ptr  == Peek(m.ht, h)
        m1(len) == (ptr - len - 1) % size
        m2(len) == (m.buf_pos - len - 1) % size
        goes(len) == m1(len) # m.buf_pos /\ Peek(m.buf, m2(len)) = Peek(m.buf, m1(len))
        stops == {len \in m.match_len..(MAX_LEN - 1) : ~goes(len)}
        ended(len) ==
            [len |-> len,
             under |-> \/ m.under
                       \/ ptr < m.match_len + 1 \/ m.buf_pos < m.match_len + 1
                       \/ \E x \in m.match_len..(len - 1) : m1(x) = 0 \/ m2(x) = 0]
        found == ended(IF m.match_len >= MAX_LEN THEN m.match_len
                       ELSE IF stops = {} THEN MAX_LEN
                       ELSE CHOOSE len \in stops : \A x \in stops : len <= x)
    IN  IF ptr # m.buf_pos
        THEN [m EXCEPT !.match_ptr = ptr, !.match_len = found.len,
                       !.under = found.under]
        ELSE [m EXCEPT !.match_ptr = ptr]

\* update_short_hash (lpaq1.rs:344-346) and update_long_hash
\* (lpaq1.rs:349-351) on the hash h, cxt being self.cxt and ht_end
\* MEM / 8 - 1 (lpaq1.rs:248, 853).  The variant of the long one adds the
\* low 8 bits of cxt.
update_short_hash(h, cxt) == (h * 160 + cxt) % (MEM \div 8)
update_long_hashOfByte(h, cxt) == (h * 24 + (cxt % 256)) % (MEM \div 8)
update_long_hash(h, cxt) == (h * 24 + cxt) % (MEM \div 8)

\* MatchModel::update (lpaq1.rs:284-322) on the MatchModel m: [m, long],
\* long being match_len after the extension or the long hash, -1 inside a
\* byte.
MatchUpdate(m, bit) ==
    LET cxt   == m.cxt * 2 + bit
        hl    == update_long_hash(m.hash_l, cxt)
        hs    == update_short_hash(m.hash_s, cxt)
        pos   == (m.buf_pos + 1) % (MEM \div 2)
        byte  == [m EXCEPT !.hash_l = hl, !.hash_s = hs,
                           !.buf = Poke(m.buf, m.buf_pos, cxt % 256),
                           !.buf_pos = pos, !.bits = 0, !.cxt = 1]
        ext   == IF m.match_len > 0
                 THEN [byte EXCEPT !.match_ptr = (m.match_ptr + 1) % (MEM \div 2),
                                   !.match_len = IF m.match_len < MAX_LEN
                                                 THEN m.match_len + 1 ELSE m.match_len]
                 ELSE find_match(byte, hl)
        tried == IF ext.match_len < 2
                 THEN find_match([ext EXCEPT !.match_len = 0], hs)
                 ELSE ext
    IN  IF m.bits + 1 = 8
        THEN [m |-> [tried EXCEPT !.ht = Poke(Poke(tried.ht, hs, pos), hl, pos)],
              long |-> ext.match_len]
        ELSE [m |-> [m EXCEPT !.cxt = cxt, !.bits = m.bits + 1], long |-> -1]

\* MatchModel::p(bit) (lpaq1.rs:253-281) on the MatchModel m: update, then
\* the comparison of the predicted bits with the coded ones.  [m, cxt, long,
\* after]: cxt is the context passed to the StateMap, after is match_len as
\* update left it.
MatchModelP(m, bit) ==
    LET u      == MatchUpdate([m EXCEPT !.under = FALSE], bit)
        byte   == Peek(u.m.buf, u.m.match_ptr)
        pr_cxt == (byte + 256) \div 2 ^ (8 - u.m.bits)
        pr_bit == (byte \div 2 ^ (7 - u.m.bits)) % 2
        len    == IF u.m.match_len < 16 THEN u.m.match_len * 2 + pr_bit
                  ELSE (u.m.match_len \div 4) * 2 + pr_bit + 24
    IN  IF u.m.match_len > 0 /\ pr_cxt = u.m.cxt
        THEN [m |-> [u.m EXCEPT !.under = u.m.under \/ u.m.buf_pos = 0],
              cxt |-> len * 256 + Peek(u.m.buf, (u.m.buf_pos - 1) % (MEM \div 2)),
              long |-> u.long, after |-> u.m.match_len]
        ELSE [m |-> [u.m EXCEPT !.match_len = 0], cxt |-> u.m.cxt,
              long |-> u.long, after |-> u.m.match_len]

\* A call MatchModel::p(bit) with the next bit, in a build that wraps, or
\* with no subtraction below 0.  mcall keeps of the call: the bit, its
\* place in the byte (at), match_len at entry (len), the bit the match
\* predicted at entry (pr), match_len after the first stage of a byte
\* boundary (long) and after update (after), and the StateMap context.
MatchP ==
    /\ part = "match" /\ ppc = "run" /\ pin # <<>>
    /\ \E r \in {MatchModelP(mm, Head(pin))} :
         /\ mm' = r.m
         /\ mcall' = [op |-> "p", bit |-> Head(pin), at |-> mm.bits,
                      len |-> mm.match_len,
                      pr |-> (Peek(mm.buf, mm.match_ptr) \div 2 ^ (7 - mm.bits)) % 2,
                      long |-> r.long, after |-> r.after, cxt |-> r.cxt]
    /\ pin' = Tail(pin)
    /\ UNCHANGED <<part, ppc, ht, hcall, cm, t0, cmcall, outsideParts>>

\* The same call in a build with overflow checks, when a subtraction goes
\* below 0: "attempt to subtract with overflow".
MatchPanics ==
    /\ part = "match" /\ ppc = "run" /\ pin # <<>>
    /\ MatchModelP(mm, Head(pin)).m.under
    /\ ppc' = "panic"
    /\ UNCHANGED <<part, pin, ht, hcall, mm, mcall, cm, t0, cmcall, outsideParts>>

\* next_state(state, bit) of ari/state.rs, which the sources at hand do not
\* hold: a transition function on the 256 bit-history states, 0 the state
\* of no history.  Taken as the history itself while it fits a byte.  What
\* follows depends on it only for the bytes 1 of the slots, the priorities
\* hash compares.
next_state(state, bit) ==
    IF 2 * state + 1 + bit <= 255 THEN 2 * state + 1 + bit ELSE state

\* The byte-level context of the model k after the byte c, from the model's
\* fields m: [cxt4, ctx, over].  ctx is o1cxt (lpaq1.rs:449), o2cxt
\* (lpaq1.rs:503-504), o3cxt (lpaq1.rs:565-566), o4cxt (lpaq1.rs:627-628),
\* o6cxt (lpaq1.rs:689-690) or word_cxt (lpaq1.rs:743-754); over tells
\* that a `+` of the computation exceeds u32.
CmContext(k, m, c) ==
    LET c4 == AddSmall32(Shl8(m.cxt4), c).v
        lower == IF c \in 65..90 THEN c + 32 ELSE c
    IN  CASE k = "cm1" -> [cxt4 |-> m.cxt4, ctx |-> U32(0, c * 256), over |-> FALSE]
          [] k = "cm2" ->
               [cxt4 |-> c4, over |-> FALSE,
                ctx |-> U32(22272 + (c4.l \div 2048), (c4.l % 2048) * 32)]
          [] k = "cm3" -> [cxt4 |-> c4, ctx |-> Mul32(Shl8(c4), U32(0, 3)), over |-> FALSE]
          [] k = "cm4" -> [cxt4 |-> c4, ctx |-> Mul32(c4, U32(0, 5)), over |-> FALSE]
          [] k = "cm6" ->
               LET sum(a) == [cxt4 |-> c4, ctx |-> U32(a.v.h % 16384, a.v.l), over |-> a.c]
               IN  sum(AddSmall32(Mul32(m.ctx, U32(0, 352)), c * 13))
          [] k = "wm" ->
               IF lower \in 97..122
               THEN LET sum(a) == [cxt4 |-> m.cxt4, ctx |-> Mul32(a.v, U32(0, 56)),
                                   over |-> a.c]
                    IN  sum(AddSmall32(m.ctx, lower))
               ELSE [cxt4 |-> m.cxt4, ctx |-> Zero32, over |-> FALSE]

\* j of `self.state.add(j)` with the shift by bits & 3 instead of
\* (bits & 3) - 1.
StateStepWide(bits, bit) == (bit + 1) * 2 ^ (bits % 4)

\* j of `self.state = self.state.add(j)` (lpaq1.rs:516-521 and the same
\* lines of the other models) after the bit `bit`, bits being the count of
\* the bits of the byte coded so far.
StateStep(bits, bit) == (bit + 1) * 2 ^ ((bits % 4) - 1)

\* p(bit) of the context model k (ContextModelO2::p and update,
\* lpaq1.rs:486-522; the same for "cm3", "cm4", "cm6" and "wm"; "cm1":
\* lpaq1.rs:432-460) with the fields m, on the memory mem = [ht, t0].  The
\* byte at state is updated, the context advanced, state set anew, and the
\* byte at state read for the StateMap.  [m, mem, acc, installed]: acc tells
\* what the call accessed (w, wslot, wlost: where state pointed at the
\* write, the slot it was set from and whether that slot was lost; r, slot,
\* rlost: the same at the read; since: as in m at the read; over; byte: the
\* byte read for the StateMap, -1 for one read through "stale"),
\* installed the slot hash installed, or -1.  A write
\* through "stale" changes no byte that is read again.
CmP(k, m, mem, bit) ==
    LET cxt1  == 2 * m.cxt + bit
        whole == cxt1 >= 256
        bits1 == IF whole THEN 0 ELSE m.bits + 1
        cxt2  == IF whole THEN 1 ELSE cxt1
        rehash == k # "cm1" /\ (whole \/ bits1 = 4)
        done(mw, c, key, r) ==
            LET state == IF k = "cm1" THEN [loc |-> "t0", at |-> c.ctx.l + cxt2]
                         ELSE IF rehash THEN [loc |-> "ht", at |-> r.ptr + 1]
                         ELSE [m.state EXCEPT !.at = @ + StateStep(bits1, bit)]
                slot  == IF rehash THEN r.ptr ELSE m.slot
                since == IF rehash \/ k = "cm1" THEN <<>> ELSE Append(m.since, bit)
                lost  == ~rehash /\ m.lost
            IN  [m |-> [bits |-> bits1, cxt |-> cxt2, cxt4 |-> c.cxt4, ctx |-> c.ctx,
                        state |-> state, slot |-> slot, since |-> since,
                        lost |-> lost],
                 mem |-> [mw EXCEPT !.ht = r.t],
                 acc |-> [w |-> m.state, wslot |-> m.slot, wlost |-> m.lost,
                          r |-> state,
                          byte |-> CASE state.loc = "ht" -> Peek(r.t, state.at)
                                     [] state.loc = "t0" -> Peek(mw.t0, state.at)
                                     [] OTHER -> -1,
                          rlost |-> lost,
                          slot |-> slot, since |-> since,
                          over |-> c.over \/ (rehash /\ key.c)],
                 installed |-> IF rehash /\ r.t # mw.ht THEN r.ptr ELSE -1]
        hashed(mw, c, key, mix) ==
            done(mw, c, key, IF rehash THEN hash(mw.ht, mix.i, mix.chksum)
                             ELSE [t |-> mw.ht, ptr |-> -1])
        keyed(mw, c, key) ==
            hashed(mw, c, key, IF rehash THEN HashMix(key.v) ELSE [i |-> 0, chksum |-> 0])
        context(mw, c) ==
            keyed(mw, c, IF whole THEN [v |-> c.ctx, c |-> FALSE]
                         ELSE AddSmall32(c.ctx, cxt1))
    IN  context(CASE m.state.loc = "ht" ->
                       [mem EXCEPT !.ht = Poke(@, m.state.at,
                                               next_state(Peek(@, m.state.at), bit))]
                  [] m.state.loc = "t0" ->
                       [mem EXCEPT !.t0 = Poke(@, m.state.at,
                                               next_state(Peek(@, m.state.at), bit))]
                  [] OTHER -> mem,
                IF whole THEN CmContext(k, m, cxt1 - 256)
                ELSE [cxt4 |-> m.cxt4, ctx |-> m.ctx, over |-> FALSE])

\* The calls of p(bit) of the context models in one Predictor::update, in
\* the order of lpaq1.rs:883-888, each on the memory the one before left:
\* [cm, mem, acc] from the models s and the memory me.  A model whose slot
\* a later call of hash installs anew has lost it.
ModelCalls(s0, me0, bit) ==
    LET order == <<"wm", "cm1", "cm2", "cm3", "cm4", "cm6">>
        RECURSIVE calls(_, _, _, _)
        calls(n, s, me, acc) ==
            LET after(k, r) ==
                    calls(n + 1,
                          [j \in DOMAIN s |->
                              IF j = k THEN r.m
                              ELSE IF r.installed >= 0 /\ s[j].slot = r.installed
                                   THEN [s[j] EXCEPT !.lost = TRUE]
                                   ELSE s[j]],
                          r.mem, [acc EXCEPT ![k] = r.acc])
            IN  IF n > Len(order) THEN [cm |-> s, mem |-> me, acc |-> acc]
                ELSE CHOOSE x \in {after(order[n], r) :
                                     r \in {CmP(order[n], s[order[n]], me, bit)}} : TRUE
    IN  calls(1, s0, me0, [k \in DOMAIN s0 |-> <<>>])

\* One call Predictor::update(bit) with the next bit of the file, as far as
\* the context models go.  cmcall keeps the bit and what each model
\* accessed (acc of CmP).
ModelsP ==
    /\ part = "models" /\ ppc = "run" /\ pin # <<>>
    /\ \E r \in {ModelCalls(cm, [ht |-> ht, t0 |-> t0], Head(pin))} :
         /\ cm' = r.cm
         /\ ht' = r.mem.ht
         /\ t0' = r.mem.t0
         /\ cmcall' = [op |-> "update", bit |-> Head(pin), acc |-> r.acc]
    /\ pin' = Tail(pin)
    /\ UNCHANGED <<part, ppc, hcall, mm, mcall, outsideParts>>

PartsNext == HashCall \/ HashWrite \/ MatchP \/ MatchPanics \/ ModelsP

SpecParts == PartsInit /\ [][PartsNext]_vars

\* The latest action was a call of hash that found no checksum / found it.
HashMissed == part = "hash" /\ hcall.op = "hash" /\ hcall.found = 0
HashHit == part = "hash" /\ hcall.op = "hash" /\ hcall.found > 0

\* C13: replacement policy.  When hash(c) misses, the slot it zeroes and
\* installs is one of the three probed slots i, i ^ B, i ^ 2B, and it is the
\* one whose byte 1 was the largest of the three.
C13_ReplacesLargestProbed ==
    HashMissed =>
        \E k \in 1..3 :
            /\ hcall.ptr = Probed(hcall.i)[k]
            /\ \A j \in 1..3 : hcall.prio[k] >= hcall.prio[j]

\* The first half of C13 alone: the replaced slot is a probed one.
HashReplacesProbed ==
    HashMissed => \E k \in 1..3 : hcall.ptr = Probed(hcall.i)[k]

\* What hash does replace: a slot of the four i, i ^ B, i ^ 2B, i ^ 3B, and
\* if it is a probed one, its byte 1 was the least of the three.  The slot
\* is installed: byte 0 holds the checksum, byte 1 is 0.
HashReplacesLeast ==
    HashMissed =>
        /\ hcall.ptr \in {hcall.i, Flip(hcall.i, B), Flip(hcall.i, B * 2),
                          Flip(Flip(hcall.i, B), B * 2)}
        /\ \A k \in 1..3 :
              hcall.ptr = Probed(hcall.i)[k]
                 => \A j \in 1..3 : hcall.prio[k] <= hcall.prio[j]
        /\ Peek(ht, hcall.ptr) = HashMix(U32(hcall.ctx \div 65536, hcall.ctx % 65536)).chksum
        /\ Peek(ht, hcall.ptr + 1) = 0

\* C14: a hit changes nothing.  If a probed slot holds the checksum, the
\* third one (i ^ 2B) in particular, hash returns the first that does and
\* leaves every byte of the table as it was.
C14_HitKeepsTable ==
    HashHit => hcall.kept /\ hcall.ptr = Probed(hcall.i)[hcall.found]

\* hash has found the checksum at the third probe, in a table with written
\* bytes.
C14_Witness ==
    HashHit /\ hcall.found = 3 /\ \E a \in DOMAIN ht : a % B = 1

\* The latest two actions were calls of hash with the same context.
HashRepeated == part = "hash" /\ hcall.op = "hash" /\ hcall.again

\* C15: lookup is idempotent.  Two calls hash(c); hash(c) with nothing in
\* between return the same slot, and the second changes no byte: an entry
\* the first call installed on a miss is found by the second.
C15_HashIdempotent ==
    HashRepeated =>
        /\ hcall.same /\ hcall.kept
        /\ hcall.installed => hcall.found > 0

\* What the second of two such calls does: it returns the same slot and
\* changes no byte, be it that it finds the entry or installs it again.
HashRepeatKeeps == HashRepeated => hcall.same /\ hcall.kept

\* The latest action was a call of MatchModel::p that has returned.
MatchReturned == part = "match" /\ mcall.op = "p"

\* C16: mismatch reset.  At every place 0..7 of a byte, if match_len > 0 and
\* the coded bit differs from the bit the match predicted, match_len is 0
\* when MatchModel::p returns, and the match has not been extended at the
\* byte boundary.
C16_MismatchResets ==
    (MatchReturned /\ mcall.len > 0 /\ mcall.bit # mcall.pr) =>
        mm.match_len = 0 /\ mcall.long <= 0

\* At the places 0..6 the mismatch does end the match.
MatchMismatchInsideByte ==
    (MatchReturned /\ mcall.len > 0 /\ mcall.bit # mcall.pr /\ mcall.at < 7) =>
        mm.match_len = 0

\* C17: length bound.  0 <= match_len <= MAX_LEN in every state, after the
\* extension and after find_match as well, and a match shorter than 2 bytes
\* found by either hash is discarded.
C17_MatchLenBound ==
    part = "match" =>
        /\ mm.match_len \in 0..MAX_LEN
        /\ MatchReturned =>
              /\ mcall.long \in -1..MAX_LEN
              /\ mcall.after \in (0..MAX_LEN) \ {1}

\* What holds of the length: the bound, and a match of 1 byte is kept only
\* if the short hash found it.
MatchLenWithin ==
    part = "match" =>
        /\ mm.match_len \in 0..MAX_LEN
        /\ MatchReturned =>
              /\ mcall.long \in -1..MAX_LEN
              /\ mcall.after \in 0..MAX_LEN
              /\ (mcall.after = 1 /\ mcall.long >= 0) => mcall.long \in 0..1

\* The latest step was a call of Predictor::update on the context models.
ModelsReturned == part = "models" /\ cmcall.op = "update"

\* The hashed context models.
Hashed == {"wm", "cm2", "cm3", "cm4", "cm6"}

\* No `+` of a context exceeded u32 in the latest call.
ModelsNoOverflow == ModelsReturned => \A k \in DOMAIN cmcall.acc : ~cmcall.acc[k].over

\* C18: whenever a hashed context model writes or reads through state, no
\* call of hash since state was set has installed another context in the
\* slot state points into.
C18_StateSlotOwned ==
    ModelsReturned =>
        \A k \in Hashed :
            /\ cmcall.acc[k].w.loc = "ht" => ~cmcall.acc[k].wlost
            /\ cmcall.acc[k].r.loc = "ht" => ~cmcall.acc[k].rlost

\* At the read that follows a model's own call of hash the slot is the
\* model's: a slot is lost only to a later call of hash.
ModelsOwnedAtRehash ==
    ModelsReturned =>
        \A k \in Hashed : cmcall.acc[k].since = <<>> => ~cmcall.acc[k].rlost

\* C19: at every coded bit, from the first, the byte a hashed model writes
\* and the byte it reads through state are bytes of the shared table, not of
\* t0.
C19_StateInsideTable ==
    ModelsReturned =>
        \A k \in Hashed :
            /\ cmcall.acc[k].w.loc = "ht" /\ cmcall.acc[k].w.at \in 0..(MEM * 2 - 1)
            /\ cmcall.acc[k].r.loc = "ht" /\ cmcall.acc[k].r.at \in 0..(MEM * 2 - 1)

\* Once hash has set state, state stays in the table.
ModelsInsideAfterRehash ==
    ModelsReturned =>
        \A k \in Hashed :
            /\ cmcall.acc[k].wslot >= 0 =>
                  cmcall.acc[k].w.loc = "ht" /\ cmcall.acc[k].w.at \in 0..(MEM * 2 - 1)
            /\ cmcall.acc[k].slot >= 0 =>
                  cmcall.acc[k].r.loc = "ht" /\ cmcall.acc[k].r.at \in 0..(MEM * 2 - 1)

\* The offset the bits coded since a rehash give: 1 for none, then a
\* leading 1 over the bits, the first the lowest.
OffsetOf(since) ==
    2 ^ Len(since)
      + (IF Len(since) >= 1 THEN since[1] ELSE 0)
      + (IF Len(since) >= 2 THEN 2 * since[2] ELSE 0)
      + (IF Len(since) >= 3 THEN 4 * since[3] ELSE 0)

\* C20: for a hashed model whose state was set by hash, state is the slot
\* hash returned plus an offset in 1..15 that the bits coded since fix one
\* to one (OffsetOf), and the byte written through state is one of the
\* bytes 1..15 of that slot.
C20_StateInsideSlot ==
    ModelsReturned =>
        \A k \in Hashed :
            /\ cmcall.acc[k].slot >= 0 =>
                  /\ cmcall.acc[k].slot % B = 0
                  /\ Len(cmcall.acc[k].since) <= 3
                  /\ cmcall.acc[k].r.at - cmcall.acc[k].slot = OffsetOf(cmcall.acc[k].since)
                  /\ cmcall.acc[k].r.at - cmcall.acc[k].slot \in 1..15
            /\ cmcall.acc[k].wslot >= 0 =>
                  cmcall.acc[k].w.at - cmcall.acc[k].wslot \in 1..15

\* Every hashed model, three bits 1 after a rehash, points at the last
\* byte of its slot.
C20_Witness ==
    /\ ModelsReturned
    /\ \A k \in Hashed :
          /\ cmcall.acc[k].slot >= 0
          /\ cmcall.acc[k].since = <<1, 1, 1>>
          /\ cmcall.acc[k].r.at = cmcall.acc[k].slot + 15
          /\ cmcall.acc[k].wslot = cmcall.acc[k].slot

(***************************************************************************)
(* ari/fpaq.rs, ari/lpaq1.rs: StateMap                                     *)
(***************************************************************************)

LIMIT == 127

\* The calls of StateMap::p that take any bit and context before the run of
\* one bit on one context starts.
SmFree == 2
\* The contexts of the StateMap, StateMap::new(2).
SmContexts == {0, 1}

\* StateMap::update without `>> 3` on the error in lpaq1.rs.
StateMapUpdateUnscaled(v, entry, bit) ==
    LET fp     == v = "fpaq"
        count  == entry.l % (IF fp THEN 512 ELSE 1024)
        pr     == IF fp THEN entry.h * 4 + entry.l \div 16384
                  ELSE entry.h * 64 + entry.l \div 1024
        bumped == IF count < LIMIT THEN AddSmall32(entry, 1)
                  ELSE [v |-> entry, c |-> FALSE]
        pr_err == IF fp THEN bit * 262144 - pr ELSE bit * 4194304 - pr
        rec_v  == IF fp THEN 32768 \div (count + count + 5)
                  ELSE 16384 \div (count + count + 3)
        i32(x) == IF x >= 0 THEN U32(x \div 65536, x % 65536)
                  ELSE U32(65535 - ((-x - 1) \div 65536), 65535 - ((-x - 1) % 65536))
        masked(a) == U32(a.h, a.l - (a.l % (IF fp THEN 512 ELSE 1024)))
        added(b, u, s) ==
            [e |-> s.v, count |-> count, pr_err |-> pr_err, rec_v |-> rec_v,
             fits |-> IF pr_err >= 0 THEN pr_err <= 2147483647 \div rec_v
                      ELSE -pr_err <= 2147483647 \div rec_v,
             wrapped |-> b.c \/ (IF u.h >= 32768 THEN ~s.c ELSE s.c)]
        sum(b, u) == added(b, u, Add32(b.v, u))
    IN  sum(bumped, masked(Mul32(i32(pr_err), U32(0, rec_v))))

\* StateMap::update(bit) on the entry cxt_map[cxt] of the StateMap of v:
\* "fpaq" (fpaq.rs:38-50: a count of 9 bits, pr = entry >> 14, PR_MSK
\* 0xFFFFFE00, rec[i] = 32768 / (i + i + 5), fpaq.rs:12, 27) or "lpaq1"
\* (lpaq1.rs:106-119: a count of 10 bits, pr = entry >> 10, the error
\* shifted right by 3, PR_MSK 0xFFFFFC00, rec[i] = 16384 / (i + i + 3),
\* lpaq1.rs:76, 96).  The product is taken on the two's complement of the
\* error, as wrapping i32.  [e, count, pr_err, rec_v, fits, wrapped]: the
\* entry after the call, count, pr_err and rec_v as the code names them,
\* whether pr_err * rec_v is an i32, and whether `+= 1` or the
\* wrapping_add left the 32 bits.
StateMapUpdate(v, entry, bit) ==
    LET fp     == v = "fpaq"
        count  == entry.l % (IF fp THEN 512 ELSE 1024)
        pr     == IF fp THEN entry.h * 4 + entry.l \div 16384
                  ELSE entry.h * 64 + entry.l \div 1024
        bumped == IF count < LIMIT THEN AddSmall32(entry, 1)
                  ELSE [v |-> entry, c |-> FALSE]
        pr_err == IF fp THEN bit * 262144 - pr ELSE (bit * 4194304 - pr) \div 8
        rec_v  == IF fp THEN 32768 \div (count + count + 5)
                  ELSE 16384 \div (count + count + 3)
        i32(x) == IF x >= 0 THEN U32(x \div 65536, x % 65536)
                  ELSE U32(65535 - ((-x - 1) \div 65536), 65535 - ((-x - 1) % 65536))
        masked(a) == U32(a.h, a.l - (a.l % (IF fp THEN 512 ELSE 1024)))
        added(b, u, s) ==
            [e |-> s.v, count |-> count, pr_err |-> pr_err, rec_v |-> rec_v,
             fits |-> IF pr_err >= 0 THEN pr_err <= 2147483647 \div rec_v
                      ELSE -pr_err <= 2147483647 \div rec_v,
             wrapped |-> b.c \/ (IF u.h >= 32768 THEN ~s.c ELSE s.c)]
        sum(b, u) == added(b, u, Add32(b.v, u))
    IN  sum(bumped, masked(Mul32(i32(pr_err), U32(0, rec_v))))

(***************************************************************************)
(* The predictor of fpaq.rs: a bit history per partial byte, one StateMap  *)
(* and five APM stages.                                                    *)
(***************************************************************************)

\* The free calls of Predictor::update before the bit repeats.
FpFree == 2

\* t[a] and t[a] = b on a vector kept by the entries written so far, d being
\* the value `vec![d; n]` or Apm::new filled the entry with.
Cell(t, a, d) == IF a \in DOMAIN t THEN t[a] ELSE d
Store(t, a, b) == [x \in DOMAIN t \cup {a} |-> IF x = a THEN b ELSE t[x]]

\* a ^ b on naturals.
RECURSIVE BitXor(_, _)
BitXor(a, b) ==
    IF a = 0 THEN b
    ELSE IF b = 0 THEN a
    ELSE 2 * BitXor(a \div 2, b \div 2) + ((a + b) % 2)

\* The value Apm::update moves the two bins towards (fpaq.rs:100), without
\* and with the `- bit - bit` that keeps it a u16.
ApmTargetFull(bit, rate) == bit * 65536 + bit * 2 ^ rate
ApmTarget(bit, rate) == bit * 65536 + bit * 2 ^ rate - bit - bit

\* Apm::p (fpaq.rs:78-93) with the Apm::update it calls (fpaq.rs:95-105), on
\* a = [bin, bins] of an Apm of cxts contexts.  bins holds the entries
\* written so far; the others have the value of Apm::new (fpaq.rs:61-69),
\* `(squash((i - 16) * 128) * 16) as u16` in each row of 33.  asserts is
\* whether the three assertions of p and the two of update pass; wide are
\* the two values update casts `as u16`, row the offset of bin in its row.
ApmP(a, cxts, bit, rate, pr, cxt) ==
    LET new(i) == (squash(((i % 33) - 16) * 128) * 16) % 65536
        g == ApmTarget(bit, rate)
        moved(x) == x + ((g - x) \div 2 ^ rate)
        asserts == bit \in 0..1 /\ pr >= 0 /\ pr < 4096 /\ cxt < cxts
                   /\ rate > 0 /\ rate < 32
        ret(bins, bin, i_w, wa, wb) ==
            [a |-> [bin |-> bin, bins |-> bins], asserts |-> TRUE,
             pr |-> pr, cxt |-> cxt, cxts |-> cxts, wide |-> <<wa, wb>>,
             row |-> bin - cxt * 33,
             ret |-> (Cell(bins, bin, new(bin)) * (128 - i_w)
                        + Cell(bins, bin + 1, new(bin + 1)) * i_w) \div 2048]
        interpolate(bins, st, wa, wb) ==
            ret(bins, ((st + 2048) \div 128) + cxt * 33, st % 128, wa, wb)
        update(wa, wb) ==
            interpolate(Store(Store(a.bins, a.bin, wa % 65536), a.bin + 1, wb % 65536),
                        stretch(pr), wa, wb)
    IN  IF asserts
        THEN update(moved(Cell(a.bins, a.bin, new(a.bin))),
                    moved(Cell(a.bins, a.bin + 1, new(a.bin + 1))))
        ELSE [a |-> a, asserts |-> FALSE, pr |-> pr, cxt |-> cxt, cxts |-> cxts,
              wide |-> <<0, 0>>, row |-> 0, ret |-> 0]


(***************************************************************************)
(* The predictor of lpaq1.rs: the match model, the word model and the      *)
(* context models of orders 1, 2, 3, 4 and 6, each with its StateMap, the  *)
(* Mixer and two APM stages.                                               *)
(***************************************************************************)

\* The free calls of Predictor::update before the bit repeats, and the
\* bytes of the longest file.
LpFree == 2
LpBytes == 36

\* What a byte read through a dangling state pointer may hold.
LpStale == {0, 255}

\* StateMap::p (lpaq1.rs:98-103, fpaq.rs:31-36) on s = [cxt, cxt_map], the
\* map kept by the entries written so far, the others 1 << 31: [s, ret].
StateMapP(v, s, bit, cxt) ==
    LET stored(map) ==
            [s |-> [cxt |-> cxt, cxt_map |-> map],
             ret |-> Cell(map, cxt, U32(32768, 0)).h \div 16]
    IN  stored(Store(s.cxt_map, s.cxt,
                     StateMapUpdate(v, Cell(s.cxt_map, s.cxt, U32(32768, 0)), bit).e))

\* error of Mixer::update (lpaq1.rs:171) for the mixer's prediction pr; the
\* variant scales by 16.
MixerErrorBy16(bit, pr) == (bit * 4096 - pr) * 16
MixerError(bit, pr) == (bit * 4096 - pr) * 7

\* train (lpaq1.rs:179-183) on the n weights from wht_set on, the slice
\* Mixer::update passes (lpaq1.rs:173); the weights are kept by the ones
\* written so far, the others 0.  The variant trains the set after.
trainNextSet(inputs, weights, n, wht_set, error) ==
    [x \in DOMAIN weights
            \cup ({wht_set + Len(inputs) + i - 1 : i \in 1..Len(inputs)} \cap 0..(n - 1)) |->
        Peek(weights, x)
          + (IF x - wht_set - Len(inputs) \in 0..(Len(inputs) - 1)
             THEN (inputs[x - wht_set - Len(inputs) + 1] * error + 32768) \div 65536
             ELSE 0)]
train(inputs, weights, n, wht_set, error) ==
    [x \in DOMAIN weights \cup ({wht_set + i - 1 : i \in 1..Len(inputs)} \cap 0..(n - 1)) |->
        Peek(weights, x)
          + (IF x - wht_set \in 0..(Len(inputs) - 1)
             THEN (inputs[x - wht_set + 1] * error + 32768) \div 65536
             ELSE 0)]

\* dot_product (lpaq1.rs:185-188) of the inputs and the n weights from
\* wht_set on, the slice Mixer::p passes (lpaq1.rs:164).
dot_product(inputs, weights, n, wht_set) ==
    LET RECURSIVE sum(_)
        sum(i) == IF i = 0 THEN 0
                  ELSE sum(i - 1) + (IF wht_set + i - 1 < n
                                     THEN inputs[i] * Peek(weights, wht_set + i - 1)
                                     ELSE 0)
    IN  sum(Len(inputs)) \div 65536

\* Predictor::order (lpaq1.rs:907-928) for the match length len and the
\* bytes at the states of the models of orders 2, 3, 4 and 6; the variant
\* counts the order 1 model with them.
orderWithO1(len, bytes) ==
    IF len = 0
    THEN Cardinality({k \in {"cm1", "cm2", "cm3", "cm4", "cm6"} : bytes[k] # 0})
    ELSE 5 + (IF len >= 8 THEN 1 ELSE 0) + (IF len >= 12 THEN 1 ELSE 0)
           + (IF len >= 16 THEN 1 ELSE 0) + (IF len >= 32 THEN 1 ELSE 0)
order(len, bytes) ==
    IF len = 0
    THEN Cardinality({k \in {"cm2", "cm3", "cm4", "cm6"} : bytes[k] # 0})
    ELSE 5 + (IF len >= 8 THEN 1 ELSE 0) + (IF len >= 12 THEN 1 ELSE 0)
           + (IF len >= 16 THEN 1 ELSE 0) + (IF len >= 32 THEN 1 ELSE 0)

\* The state after construction of the unit that runs.  "fpaq":
\* Predictor::new (fpaq.rs:118-135).  "lpaq1": Predictor::new
\* (lpaq1.rs:840-866) with MatchModel::new, Mixer::new(7, 80) and the models'
\* new; the state pointers are in cm1.t0 or, the Predictor having moved
\* when new returned, dangle, and then every byte read through one holds
\* stale.  "statemap":
\* StateMap::new(2) (fpaq.rs:23-29, lpaq1.rs:92-98), every entry 1 << 31
\* and cxt 0; left counts the calls that still take any bit and context,
\* run is the bit of the run after them (-1: not begun, 2: over).
PredInit ==
    /\ unit \in {"statemap", "fpaq", "lpaq1"}
    /\ sm \in IF unit = "statemap"
              THEN {[v |-> v, cxt |-> 0, cxt_map |-> [c \in SmContexts |-> U32(32768, 0)],
                     left |-> SmFree, run |-> -1] : v \in {"fpaq", "lpaq1"}}
              ELSE {<<>>}
    /\ smcall = IF unit = "statemap" THEN [op |-> "new"] ELSE <<>>
    /\ fpaq = IF unit = "fpaq"
            THEN [cxt |-> 0, cxt4 |-> 0, pr |-> 2048, state |-> <<>>,
                  sm |-> [cxt |-> 0, cxt_map |-> <<>>],
                  apm |-> [k \in 1..5 |-> [bin |-> 0, bins |-> <<>>]],
                  left |-> FpFree, last |-> -1, dead |-> FALSE]
            ELSE <<>>
    /\ fpcall = IF unit = "fpaq" THEN [op |-> "new"] ELSE <<>>
    /\ lpaq \in IF unit = "lpaq1"
                THEN {[pr |-> 2048,
                       mm |-> [match_ptr |-> 0, match_len |-> 0, cxt |-> 1, bits |-> 0,
                               hash_s |-> 0, hash_l |-> 0, buf_pos |-> 0, buf |-> <<>>,
                               ht |-> <<>>, under |-> FALSE],
                       cm |-> [k \in {"wm", "cm1", "cm2", "cm3", "cm4", "cm6"} |->
                                 [bits |-> 0, cxt |-> 1, cxt4 |-> Zero32, ctx |-> Zero32,
                                  state |-> [loc |-> v.loc, at |-> 0],
                                  slot |-> -1, since |-> <<>>, lost |-> FALSE]],
                       ht |-> <<>>, t0 |-> <<>>, stale |-> v.stale,
                       sm |-> [k \in {"mm", "wm", "cm1", "cm2", "cm3", "cm4", "cm6"} |->
                                 [cxt |-> 0, cxt_map |-> <<>>]],
                       mxr |-> [max_in |-> 7, sets |-> 80, inputs |-> <<>>,
                                weights |-> <<>>, wht_set |-> 0, pr |-> 2048],
                       apm1 |-> [bin |-> 0, bins |-> <<>>],
                       apm2 |-> [bin |-> 0, bins |-> <<>>],
                       left |-> LpFree, last |-> -1, n |-> 0, dead |-> FALSE] :
                      v \in {[loc |-> "t0", stale |-> 0]}
                             \cup {[loc |-> "stale", stale |-> b] : b \in LpStale}}
                ELSE {<<>>}
    /\ lpcall = IF unit = "lpaq1" THEN [op |-> "new"] ELSE <<>>
    /\ IdleOutsidePred

\* A call StateMap::p(bit, cxt) (fpaq.rs:31-36, lpaq1.rs:100-105): update
\* on the entry of the context of the call before, then the new context's
\* entry >> 20.  The first SmFree calls take any bit and context; then one
\* bit is repeated on one context for as long as it changes the entry, and
\* one call with the other bit ends the calls.  smcall keeps the bit, the
\* entry updated before (was) and after (now), what StateMapUpdate tells,
\* and the value returned.
SmP ==
    /\ unit = "statemap" /\ sm.run # 2
    /\ \E bit \in 0..1, cxt \in SmContexts :
         /\ sm.left = 0 => cxt = sm.cxt
         /\ \E r \in {StateMapUpdate(sm.v, sm.cxt_map[sm.cxt], bit)} :
              /\ sm' = [sm EXCEPT !.cxt_map[sm.cxt] = r.e,
                                  !.cxt = cxt,
                                  !.left = IF @ > 0 THEN @ - 1 ELSE 0,
                                  !.run = IF sm.left > 0 THEN -1
                                          ELSE IF @ \in {-1, bit} THEN bit ELSE 2]
              /\ smcall' = [op |-> "p", v |-> sm.v, bit |-> bit,
                            was |-> sm.cxt_map[sm.cxt], now |-> r.e,
                            count |-> r.count, pr_err |-> r.pr_err,
                            rec_v |-> r.rec_v, fits |-> r.fits,
                            wrapped |-> r.wrapped,
                            ret |-> (IF cxt = sm.cxt THEN r.e
                                     ELSE sm.cxt_map[cxt]).h \div 16]
    /\ UNCHANGED <<unit, fpaq, fpcall, lpaq, lpcall, outsidePred>>

\* Predictor::update (fpaq.rs:142-168), an encoder or decoder calling it
\* with the bit it coded: FpFree bits of any value, then the last of them
\* again and again.  The low 24 bits of cxt4 are kept, the only ones the
\* update reads (fpaq.rs:159-165).  A call in which an assertion fails ends
\* the program.  The call leaves in fpcall the five APM stages and the
\* probabilities between them.
FpUpdate ==
    /\ unit = "fpaq" /\ ~fpaq.dead
    /\ \E bit \in 0..1 :
         /\ fpaq.left = 0 => bit = fpaq.last
         /\ \E c \in {2 * fpaq.cxt + bit},
               state \in {Poke(fpaq.state, fpaq.cxt, next_state(Peek(fpaq.state, fpaq.cxt), bit))},
               s \in {StateMapUpdate("fpaq", Cell(fpaq.sm.cxt_map, fpaq.sm.cxt, U32(32768, 0)), bit)} :
            \E cxt \in {IF c >= 256 THEN 0 ELSE c},
               cxt4 \in {IF c >= 256 THEN (fpaq.cxt4 % 65536) * 256 + (c - 256) ELSE fpaq.cxt4},
               map \in {Store(fpaq.sm.cxt_map, fpaq.sm.cxt, s.e)} :
            \E p0 \in {Cell(map, Peek(state, cxt), U32(32768, 0)).h \div 16} :
            \E a0 \in {ApmP(fpaq.apm[1], 256, bit, 5, p0, cxt)},
               a1 \in {ApmP(fpaq.apm[2], 256, bit, 9, p0, cxt)} :
            \E p1 \in {(a0.ret + a1.ret + 1) \div 2} :
            \E a2 \in {ApmP(fpaq.apm[3], 65536, bit, 7, p1, cxt + (cxt4 % 256) * 256)} :
            \E a3 \in {ApmP(fpaq.apm[4], 8192, bit, 7, a2.ret, cxt + ((cxt4 \div 256) % 32) * 256)},
               h \in {Mul32(U32(cxt4 \div 65536, cxt4 % 65536),
                            U32(123456791 \div 65536, 123456791 % 65536)).h \div 4} :
            \E p3 \in {(a3.ret * 3 + a2.ret + 2) \div 4} :
            \E a4 \in {ApmP(fpaq.apm[5], 16384, bit, 7, p3, BitXor(cxt, h))} :
            \E pr \in {(a4.ret + p3 + 1) \div 2},
               passed \in {a0.asserts /\ a1.asserts /\ a2.asserts /\ a3.asserts /\ a4.asserts} :
              /\ fpaq' = [cxt |-> cxt, cxt4 |-> cxt4, pr |-> pr, state |-> state,
                        sm |-> [cxt |-> Peek(state, cxt), cxt_map |-> map],
                        apm |-> <<a0.a, a1.a, a2.a, a3.a, a4.a>>,
                        left |-> IF fpaq.left > 0 THEN fpaq.left - 1 ELSE 0,
                        last |-> bit, dead |-> ~passed]
              /\ fpcall' = [op |-> "update", bit |-> bit, sm |-> p0,
                            stages |-> <<a0, a1, a2, a3, a4>>,
                            between |-> <<p1, a2.ret, p3>>, passed |-> passed]
    /\ UNCHANGED <<unit, sm, smcall, lpaq, lpcall, outsidePred>>

\* Predictor::update (lpaq1.rs:876-903), an encoder or decoder calling it
\* with the bit it coded, in a build that wraps, or with no subtraction
\* below 0 and no sum beyond u32: LpFree bits of any value, then the last
\* of them again and again, 8 * LpBytes bits at most, and then or before
\* one bit that differs, the last one (left = -1).  A call in which an
\* assertion fails, or the set of weights starts beyond the weights, ends
\* the program.  lpcall
\* keeps of the call: the error and the weights Mixer::update trained with,
\* the inputs added after it cleared them (lpaq1.rs:174), each with the
\* model it is of and the length of the inputs before, the order, the set chosen, the dot product, the mixer's output, the
\* two APM stages and whether every assertion passed.
LpUpdate ==
    /\ unit = "lpaq1" /\ ~lpaq.dead /\ lpaq.left >= 0
    /\ \E bit \in 0..1 :
         /\ lpaq.n >= 8 * LpBytes => lpaq.left = 0 /\ bit # lpaq.last
         /\ \E error \in {MixerError(bit, lpaq.mxr.pr)},
               m \in {MatchModelP(lpaq.mm, bit)},
               c \in {ModelCalls(lpaq.cm, [ht |-> lpaq.ht, t0 |-> lpaq.t0], bit)} :
            \E weights \in {train(lpaq.mxr.inputs, lpaq.mxr.weights, lpaq.mxr.max_in * lpaq.mxr.sets,
                                lpaq.mxr.wht_set, error)},
               sms \in {[k \in DOMAIN lpaq.sm |->
                          StateMapP("lpaq1", lpaq.sm[k], bit,
                                    IF k = "mm" THEN m.cxt
                                    ELSE IF c.acc[k].byte >= 0 THEN c.acc[k].byte
                                    ELSE lpaq.stale)]},
               bytes \in {[k \in DOMAIN c.cm |->
                            CASE c.cm[k].state.loc = "ht" -> Peek(c.mem.ht, c.cm[k].state.at)
                              [] c.cm[k].state.loc = "t0" -> Peek(c.mem.t0, c.cm[k].state.at)
                              [] OTHER -> lpaq.stale]} :
            \E added \in {[k \in 1..7 |->
                            [of |-> <<"mm", "wm", "cm1", "cm2", "cm3", "cm4", "cm6">>[k],
                             len |-> Len(<<>>) + k - 1,
                             input |-> stretch(sms[<<"mm", "wm", "cm1", "cm2", "cm3",
                                                     "cm4", "cm6">>[k]].ret)]]},
               ord \in {order(m.m.match_len, bytes)} :
            \E inputs \in {[k \in 1..7 |-> added[k].input]},
               set \in {ord + 10 * (c.cm["cm1"].ctx.l \div 8192)} :
            \E d \in {IF set * lpaq.mxr.max_in <= lpaq.mxr.max_in * lpaq.mxr.sets
                      THEN dot_product(inputs, weights, lpaq.mxr.max_in * lpaq.mxr.sets,
                                       set * lpaq.mxr.max_in)
                      ELSE 0} :
            \E p0 \in {squash(d)} :
            \E a1 \in {ApmP(lpaq.apm1, 256, bit, 7, p0, c.cm["cm1"].cxt)} :
            \E p1 \in {(p0 + 3 * a1.ret) \div 4} :
            \E a2 \in {ApmP(lpaq.apm2, 16384, bit, 7, p1,
                            BitXor(c.cm["cm1"].cxt, c.cm["cm1"].ctx.l \div 4))} :
            \E passed \in {/\ error >= -32768 /\ error < 32768
                           /\ \A k \in 1..7 : added[k].len < lpaq.mxr.max_in
                           /\ set * lpaq.mxr.max_in <= lpaq.mxr.max_in * lpaq.mxr.sets
                           /\ a1.asserts /\ a2.asserts} :
              /\ lpaq' = [lpaq EXCEPT
                            !.pr = (p1 + 3 * a2.ret) \div 4,
                            !.mm = m.m, !.cm = c.cm, !.ht = c.mem.ht, !.t0 = c.mem.t0,
                            !.sm = [k \in DOMAIN sms |-> sms[k].s],
                            !.mxr = [@ EXCEPT !.inputs = inputs, !.weights = weights,
                                              !.wht_set = set * lpaq.mxr.max_in,
                                              !.pr = p0],
                            !.apm1 = a1.a, !.apm2 = a2.a,
                            !.left = IF @ > 0 THEN @ - 1
                                     ELSE IF bit = lpaq.last THEN 0 ELSE -1,
                            !.last = bit, !.n = @ + 1, !.dead = ~passed]
              /\ lpcall' = [op |-> "update", bit |-> bit, error |-> error,
                            trained |-> [with |-> lpaq.mxr.inputs,
                                         at |-> lpaq.mxr.wht_set,
                                         changed |-> {x \in DOMAIN weights :
                                                        weights[x] # Peek(lpaq.mxr.weights, x)}],
                            added |-> added,
                            len |-> m.m.match_len, bytes |-> bytes, order |-> ord,
                            o1 |-> c.cm["cm1"].ctx.l \div 8192, set |-> set,
                            dot |-> d, mixed |-> p0, apm |-> <<a1, a2>>,
                            between |-> p1, over |-> \E k \in DOMAIN c.acc : c.acc[k].over,
                            passed |-> passed]
    /\ UNCHANGED <<unit, sm, smcall, fpaq, fpcall, outsidePred>>

\* The same call in a build with overflow checks, when a subtraction of the
\* match model goes below 0, "attempt to subtract with overflow", or a sum
\* of a context model beyond u32, "attempt to add with overflow".
LpPanics ==
    /\ unit = "lpaq1" /\ ~lpaq.dead /\ lpaq.left >= 0
    /\ \E bit \in 0..1 :
         /\ lpaq.n >= 8 * LpBytes => lpaq.left = 0 /\ bit # lpaq.last
         /\ \/ MatchModelP(lpaq.mm, bit).m.under
            \/ \E r \in {ModelCalls(lpaq.cm, [ht |-> lpaq.ht, t0 |-> lpaq.t0], bit)} :
                 \E k \in DOMAIN r.acc : r.acc[k].over
         /\ lpaq' = [lpaq EXCEPT !.dead = TRUE]
         /\ lpcall' = [op |-> "panic", bit |-> bit]
    /\ UNCHANGED <<unit, sm, smcall, fpaq, fpcall, outsidePred>>

PredNext == SmP \/ FpUpdate \/ LpUpdate \/ LpPanics

SpecPred == PredInit /\ [][PredNext]_vars

\* The latest step was a call of StateMap::p.
SmReturned == unit = "statemap" /\ smcall.op = "p"

\* The parameters of the two StateMaps: the shift that gives pr, the shift
\* of the bit, the shift of the error, the size of the count field (which
\* PR_MSK clears), and the numerator and the addend of rec.
SmParams(v) ==
    IF v = "fpaq"
    THEN [shift_p |-> 14, shift_err |-> 18, err_shift |-> 0, field |-> 512,
          rec_c |-> 32768, rec_k |-> 5]
    ELSE [shift_p |-> 10, shift_err |-> 22, err_shift |-> 3, field |-> 1024,
          rec_c |-> 16384, rec_k |-> 3]

\* The one update with the parameters P on the entry: n and pr from the
\* entry, n counted up to LIMIT, the entry advanced with wrapping addition
\* by ((((bit << shift_err) - pr) >> err_shift) * rec[n]) & PR_MSK.
SmParamUpdate(P, entry, bit) ==
    LET n   == entry.l % P.field
        pr  == entry.h * 2 ^ (16 - P.shift_p) + entry.l \div 2 ^ P.shift_p
        err == (bit * 2 ^ P.shift_err - pr) \div 2 ^ P.err_shift
        two == IF err >= 0 THEN U32(err \div 65536, err % 65536)
               ELSE U32(65535 - ((-err - 1) \div 65536), 65535 - ((-err - 1) % 65536))
        prod == Mul32(two, U32(0, P.rec_c \div (2 * n + P.rec_k)))
    IN  Add32(IF n < LIMIT THEN AddSmall32(entry, 1).v ELSE entry,
              U32(prod.h, (prod.l \div P.field) * P.field)).v

FpReturned == unit = "fpaq" /\ fpcall.op = "update"

\* C23: after any Predictor::update(bit) of fpaq.rs no assertion has failed:
\* cxt < 256; the probability every APM stage takes and the one it returns,
\* the probabilities between the stages and the final pr are in 0..4095;
\* every APM context is below that APM's count of contexts, 256, 256,
\* 65536, 8192 and 16384; bin and bin + 1 are in the 33 entries of the
\* context's row, and the two values written to the bins fit a u16.
C23_FpaqAssertionsHold ==
    FpReturned =>
        /\ fpcall.passed /\ fpaq.cxt \in 0..255 /\ fpaq.pr \in 0..4095
        /\ fpcall.sm \in 0..4095
        /\ \A k \in 1..3 : fpcall.between[k] \in 0..4095
        /\ <<fpcall.stages[1].cxts, fpcall.stages[2].cxts, fpcall.stages[3].cxts,
             fpcall.stages[4].cxts, fpcall.stages[5].cxts>>
             = <<256, 256, 65536, 8192, 16384>>
        /\ \A k \in 1..5 :
             /\ fpcall.stages[k].pr \in 0..4095 /\ fpcall.stages[k].ret \in 0..4095
             /\ fpcall.stages[k].cxt \in 0..(fpcall.stages[k].cxts - 1)
             /\ fpcall.stages[k].row \in 0..31
             /\ fpcall.stages[k].a.bin
                  = fpcall.stages[k].cxt * 33 + fpcall.stages[k].row
             /\ \A j \in 1..2 : fpcall.stages[k].wide[j] \in 0..65535

\* A run of ones has driven a bin to 65535 and the final pr to 4095, in a
\* call that completed a byte.
C23_Witness ==
    /\ FpReturned /\ fpcall.passed /\ fpaq.pr = 4095
    /\ fpaq.cxt = 0 /\ fpaq.cxt4 % 256 = 255
    /\ \E k \in 1..5 : fpcall.stages[k].wide[2] = 65535

(***************************************************************************)
(* The assertions of the predictor of lpaq1.rs, its mixer's inputs and     *)
(* its choice of the weights.                                              *)
(***************************************************************************)

LpReturned == unit = "lpaq1" /\ lpcall.op = "update"

\* C24: after any Predictor::update(bit) of lpaq1.rs no assertion has
\* failed: the mixer's output and the final pr are in 0..4095, the mixer's
\* error ((bit << 12) - pr) * 7 is in -32768..32767, and the contexts of the
\* two APM stages, cm1.cxt and cm1.cxt ^ (o1cxt >> 2), are below 256 and
\* 16384.
C24_LpaqAssertionsHold ==
    LpReturned =>
        /\ lpcall.passed /\ ~lpaq.dead
        /\ lpcall.mixed \in 0..4095 /\ lpaq.mxr.pr = lpcall.mixed
        /\ lpcall.between \in 0..4095 /\ lpaq.pr \in 0..4095
        /\ lpcall.error \in (-32768)..32767
        /\ lpcall.apm[1].cxt = lpaq.cm["cm1"].cxt /\ lpcall.apm[1].cxt \in 0..255
        /\ lpcall.apm[2].cxt
             = BitXor(lpaq.cm["cm1"].cxt, lpaq.cm["cm1"].ctx.l \div 4)
        /\ lpcall.apm[2].cxt \in 0..16383
        /\ <<lpcall.apm[1].cxts, lpcall.apm[2].cxts>> = <<256, 16384>>
        /\ \A k \in 1..2 : lpcall.apm[k].pr \in 0..4095 /\ lpcall.apm[k].ret \in 0..4095

\* After a run of ones predicted with confidence, a zero: the error is
\* within 3 percent of the bound, and the second APM's context has bits of
\* the byte before.
C24_Witness ==
    /\ LpReturned /\ lpcall.passed /\ lpcall.error < -28000
    /\ lpcall.apm[2].cxt > 255

\* C25: in every Predictor::update of lpaq1.rs, Mixer::update runs first,
\* on the 7 inputs of the prediction before and on the 7 weights of the
\* set chosen for it, changes no other weight and clears the inputs; then
\* 7 inputs are added, of the match model, the word model and the models
\* of orders 1, 2, 3, 4, 6 in this order, and Mixer::p is evaluated over
\* these 7 and the set chosen in this call.
C25_MixerDiscipline ==
    [][(unit = "lpaq1" /\ lpcall'.op = "update") =>
        /\ lpcall'.trained.with = lpaq.mxr.inputs
        /\ lpcall'.trained.at = lpaq.mxr.wht_set
        /\ lpcall.op = "update" =>
             /\ lpaq.mxr.wht_set = 7 * lpcall.set
             /\ lpaq.mxr.inputs = [k \in 1..7 |-> lpcall.added[k].input]
        /\ lpcall.op = "new" => lpaq.mxr.inputs = <<>>
        /\ DOMAIN lpaq'.mxr.weights \subseteq 0..559
        /\ \A x \in 0..559 :
             Peek(lpaq'.mxr.weights, x)
               = Peek(lpaq.mxr.weights, x)
                   + (IF lpcall.op = "update" /\ x - lpaq.mxr.wht_set \in 0..6
                      THEN (lpaq.mxr.inputs[x - lpaq.mxr.wht_set + 1] * lpcall'.error
                              + 32768) \div 65536
                      ELSE 0)
        /\ [k \in 1..7 |-> lpcall'.added[k].of]
             = <<"mm", "wm", "cm1", "cm2", "cm3", "cm4", "cm6">>
        /\ [k \in 1..7 |-> lpcall'.added[k].len] = <<0, 1, 2, 3, 4, 5, 6>>
        /\ lpaq'.mxr.inputs = [k \in 1..7 |-> lpcall'.added[k].input]
        /\ lpaq'.mxr.wht_set = 7 * lpcall'.set
        /\ lpcall'.dot = dot_product(lpaq'.mxr.inputs, lpaq'.mxr.weights, 560,
                                     lpaq'.mxr.wht_set)
        /\ lpcall'.mixed = squash(lpcall'.dot)]_vars

\* An update has changed all 7 weights of a set other than the first, and
\* the set chosen for the next prediction is another one.
C25_Witness ==
    /\ LpReturned /\ lpcall.trained.at > 0
    /\ lpcall.trained.changed
         = {lpcall.trained.at + i : i \in 0..6}
    /\ lpcall.set * 7 # lpcall.trained.at

\* C26: the set of weights chosen, order + 10 * (o1cxt >> 13), is in 0..79:
\* o1cxt >> 13 is in 0..7; the order is the number of the models of orders
\* 2, 3, 4, 6 whose state byte is not 0, in 0..4, when the match length is
\* 0, and in 5..9 when it is not.
C26_WeightSetInRange ==
    LpReturned =>
        /\ lpcall.set \in 0..79 /\ lpaq.mxr.wht_set = 7 * lpcall.set
        /\ lpcall.set = lpcall.order + 10 * lpcall.o1
        /\ lpcall.o1 = lpaq.cm["cm1"].ctx.l \div 8192 /\ lpcall.o1 \in 0..7
        /\ lpaq.cm["cm1"].ctx.h = 0
        /\ lpcall.len = lpaq.mm.match_len
        /\ lpcall.len = 0 =>
             /\ lpcall.order \in 0..4
             /\ lpcall.order
                  = Cardinality({k \in {"cm2", "cm3", "cm4", "cm6"} : lpcall.bytes[k] # 0})
        /\ lpcall.len > 0 => lpcall.order \in 5..9

\* The last set is chosen: a match of 32 bytes or more after a byte of the
\* top eighth.
C26_Witness ==
    /\ LpReturned /\ lpcall.set = 79 /\ lpcall.len >= 32 /\ lpcall.o1 = 7

(***************************************************************************)
(* The hashes and the index arithmetic of the match model.                 *)
(***************************************************************************)

\* A step of MatchP that completes a byte.
MatchByteStep ==
    /\ part = "match" /\ pin # <<>> /\ pin' = Tail(pin) /\ mm.bits = 7

\* C27 as stated: at every byte boundary hash_l' = (hash_l * 24 + b) &
\* (HN - 1) and hash_s' = (hash_s * 160 + b) & (HN - 1), b in 0..255 being
\* the byte just completed.
C27_Original ==
    [][MatchByteStep =>
        \E b \in 0..255 :
          /\ b = Peek(mm'.buf, mm.buf_pos)
          /\ mm'.hash_l = (mm.hash_l * 24 + b) % (MEM \div 8)
          /\ mm'.hash_s = (mm.hash_s * 160 + b) % (MEM \div 8)]_vars

\* C27, amended: at every byte boundary hash_l' = (hash_l * 24 + 256 + b) &
\* (HN - 1) and hash_s' = (hash_s * 160 + 256 + b) & (HN - 1), b being the
\* byte just completed, the one stored in buf, and 256 + b the order-0
\* context with its leading 1; inside a byte the hashes stay.
C27_HashUpdate ==
    [][(part = "match" /\ pin # <<>> /\ pin' = Tail(pin)) =>
        IF mm.bits = 7
        THEN \E b \in 0..255 :
               /\ 256 + b = 2 * mm.cxt + Head(pin)
               /\ b = Peek(mm'.buf, mm.buf_pos)
               /\ mm'.hash_l = (mm.hash_l * 24 + 256 + b) % (MEM \div 8)
               /\ mm'.hash_s = (mm.hash_s * 160 + 256 + b) % (MEM \div 8)
        ELSE mm'.hash_l = mm.hash_l /\ mm'.hash_s = mm.hash_s]_vars

\* Three bytes are hashed: the long hash has left 16 bits, and the two
\* hashes differ.
C27_Witness ==
    /\ part = "match" /\ mcall.op = "p" /\ mcall.at = 7 /\ mm.buf_pos = 3
    /\ mm.hash_l > 65536 /\ mm.hash_l # mm.hash_s

\* C28: no subtraction of the match model's index arithmetic goes below 0:
\* match_ptr - match_len - 1 and buf_pos - match_len - 1 in find_match, the
\* decrements of m1 and m2, and buf_pos - 1 in MatchModel::p, from the first
\* byte of the stream on.
C28_NoIndexUnderflow ==
    part = "match" => ~mm.under /\ ppc # "panic"

(***************************************************************************)
(* The rounds of the coder's renormalisation.                              *)
(***************************************************************************)

\* C29: the loop `while (high ^ low) & 0xFF000000 == 0` runs at most 4
\* times in every call of encode or encode_bit, of decode or decode_bit
\* and of flush, and the call returns with the top bytes of low and high
\* different: an encode call writes one byte per round, 4 at most, a decode
\* call reads one byte per round, 4 at most, and no read of it fails.
C29_RenormBounded ==
    [][/\ Len(trail') > Len(trail) =>
            /\ call'.rounds \in 0..4
            /\ Len(wr'.buf) + Len(archive') = Len(wr.buf) + Len(archive) + call'.rounds
            /\ ~SameTopByte(enc'.high, enc'.low)
       /\ flushed' # flushed => Len(flushed') - 1 \in 0..4
       /\ (pc \in {"d_head", "d_bits"} /\ dst'.k = dst.k + 1) =>
            /\ Len(fed') - Len(fed) \in 0..4
            /\ pc' # "panic" /\ why' = why
            /\ ~SameTopByte(dec'.high, dec'.low)]_vars

\* An encode call whose loop ran 4 times: low and high were equal.
C29_Witness ==
    /\ run.algo \in {"fpaq", "lpaq1"} /\ pc \in {"c_read", "c_bits", "c_flush", "c_fill"}
    /\ trail # <<>> /\ call.rounds = 4

(***************************************************************************)
(* bufio.rs: read_ and read_checked on their own, for every size, at       *)
(* every place of a reader of every capacity.  The file holds the bytes    *)
(* 1, 2, 3, ... so that a result shows the places its bytes came from.     *)
(***************************************************************************)

\* The longest file under the reader, in bytes.
StreamMax == 12
\* The largest capacity of the reader.
ReaderMaxCap == 10

\* N of read_byte, read_u16, read_u32 and read_u64 and of their checked
\* forms (bufio.rs:89-119).
ReadSizes == {1, 2, 4, 8}

\* The place of the reader r in the file: the bytes that are neither in its
\* buffer nor still to be read.
Consumed(r) == Len(stream) - Len(r.rest) - Len(r.buf)

\* BufReader::with_capacity(cap, file) (main.rs:27-31, 94-97), nothing read.
ReaderInit ==
    /\ stream \in {[i \in 1..len |-> i] : len \in 0..StreamMax}
    /\ \E cap \in 1..ReaderMaxCap : reader = NewReader(stream, cap)
    /\ rcall = [op |-> "new", n |-> 0, at |-> 0, left |-> Len(stream),
                bytes |-> <<>>, some |-> TRUE, panic |-> FALSE]
    /\ IdleOutsideBufio

\* One call of read_::<N> (bufio.rs:38-59).  rcall: the place of the reader
\* at entry (at), the bytes of the file from there on (left), the array
\* returned, and whether read_exact(..).unwrap() panicked.
ReadCall ==
    /\ rcall.op # "idle" /\ ~rcall.panic
    /\ \E n \in ReadSizes :
       \E r \in {read_(reader, n)} :
         /\ reader' = r.rd
         /\ rcall' = [op |-> "read_", n |-> n, at |-> Consumed(reader),
                      left |-> Len(stream) - Consumed(reader),
                      bytes |-> r.bytes, some |-> TRUE, panic |-> r.panic]
    /\ UNCHANGED <<stream, outsideBufio>>

\* One call of read_checked::<N> (bufio.rs:64-87).  some: Some(bytes) was
\* returned.
ReadCheckedCall ==
    /\ rcall.op # "idle" /\ ~rcall.panic
    /\ \E n \in ReadSizes :
       \E r \in {read_checked(reader, n)} :
         /\ reader' = r.rd
         /\ rcall' = [op |-> "read_checked", n |-> n, at |-> Consumed(reader),
                      left |-> Len(stream) - Consumed(reader),
                      bytes |-> r.bytes, some |-> r.some, panic |-> FALSE]
    /\ UNCHANGED <<stream, outsideBufio>>

BufioNext ==
    \/ ReadCall
    \/ ReadCheckedCall

SpecBufio == ReaderInit /\ [][BufioNext]_vars

\* C30: a call of read_::<N> or read_checked::<N>, N in {1, 2, 4, 8}, made
\* where the file has N bytes or more left, returns the next N bytes of the
\* file in their order and leaves the reader N bytes further on, without a
\* panic, whatever the capacity of the reader and wherever its buffer ends.
C30_ReadsNextBytes ==
    (rcall.op \in {"read_", "read_checked"} /\ rcall.left >= rcall.n) =>
        /\ ~rcall.panic /\ rcall.some
        /\ rcall.bytes = SubSeq(stream, rcall.at + 1, rcall.at + rcall.n)
        /\ Consumed(reader) = rcall.at + rcall.n

====
